---- MODULE Spec2Model ----
(***************************************************************************)
(* The link-bonding engine of vtrunkd (src/src/wireguard.rs): Link,        *)
(* LinkManager, the bond control codec and the packet classifier.          *)
(*                                                                         *)
(* Time is an integer clock `now` (an Instant); durations are integers in  *)
(* the same unit.  Option<T> is a sequence: <<>> for None, <<x>> for       *)
(* Some(x).  A datagram is a sequence of bytes.  Every socket.send_to the  *)
(* engine makes during one operation is appended to `sent`; its outcome    *)
(* (Ok or Err) is an input of the operation.                               *)
(***************************************************************************)
EXTENDS Integers, Sequences, FiniteSets, TLC

VARIABLES
    links,              \* LinkManager.links: [0..n-1 -> Link]
    mode,               \* LinkManager.mode
    error_backoff,      \* LinkManager.error_backoff
    health_timeout,     \* LinkManager.health_timeout: Option<Duration>
    next_index,         \* LinkManager.next_index
    remaining_weight,   \* LinkManager.remaining_weight
    now,                \* the clock read by Instant::now()
    sent,               \* the send_to calls of the last operation, in order
    op,                 \* the last operation and its arguments
    window,             \* links chosen by the latest undisturbed Aggregate data sends
    net_rx,             \* the mpsc channel of setup_links: NetPackets not yet taken
    rx_tasks,           \* links whose receive task is alive (holds a Sender)
    run,                \* the run task: "running", or how it ended
    decap,              \* datagrams handed to Tunn::decapsulate by the last event
    tun,                \* write_packet calls on the TUN device by the last event
    last_src,           \* per link, the source of the last NetPacket taken from net_rx
    main,               \* run_until_shutdown: where it is, the shutdown future, its result
    rx_held,            \* per link, the NetPacket its receive task holds in tx.send
    rx_read             \* per link, the datagrams recv_from has returned to its task

vars == <<links, mode, error_backoff, health_timeout, next_index,
          remaining_weight, now, sent, op, window,
          net_rx, rx_tasks, run, decap, tun, last_src, main, rx_held, rx_read>>

cfgVars == <<mode, error_backoff, health_timeout>>

chanVars == <<rx_held, rx_read>>

supVars == <<net_rx, rx_tasks, run, decap, tun, last_src, main, chanVars>>

-----------------------------------------------------------------------------
(* Option<T> *)

None == <<>>
Some(x) == <<x>>
is_some(o) == o # <<>>
is_none(o) == o = <<>>
unwrap(o) == o[1]

-----------------------------------------------------------------------------
(* Program constants, wireguard.rs:20-25 *)

WG_KEEPALIVE_LEN == 32
BOND_MAGIC == <<86, 84, 66, 68>>
BOND_PING == 1
BOND_PONG == 2
BOND_PACKET_LEN == 13

BondingMode == {"Aggregate", "Redundant", "Failover"}

-----------------------------------------------------------------------------
(* Byte helpers *)

RECURSIVE Zeros(_)
Zeros(n) == IF n = 0 THEN <<>> ELSE <<0>> \o Zeros(n - 1)

\* u32::to_le_bytes / u32::from_le_bytes
to_le_bytes(v) ==
    <<v % 256, (v \div 256) % 256, (v \div 65536) % 256, (v \div 16777216) % 256>>

from_le_bytes(b) == b[1] + 256 * b[2] + 65536 * b[3] + 16777216 * b[4]

\* u64::to_be_bytes, most significant byte first
RECURSIVE be_bytes(_, _)
be_bytes(v, count) ==
    IF count = 0 THEN <<>> ELSE be_bytes(v \div 256, count - 1) \o <<v % 256>>

\* the token cast to u16 before it is written
to_be_bytes_Truncated(v) == be_bytes(v % 65536, 8)

to_be_bytes(v) == be_bytes(v, 8)

RECURSIVE from_be_bytes(_)
from_be_bytes(b) ==
    IF b = <<>> THEN 0
    ELSE 256 * from_be_bytes(SubSeq(b, 1, Len(b) - 1)) + b[Len(b)]

-----------------------------------------------------------------------------
(* wg_packet_type, wireguard.rs:732-739 *)

wg_packet_type(packet) ==
    IF Len(packet) < 4 THEN None
    ELSE Some(from_le_bytes(SubSeq(packet, 1, 4)))

(* build_control_packet / parse_control_packet, wireguard.rs:404-422 *)

build_control_packet(message_type, token) ==
    BOND_MAGIC \o <<message_type>> \o to_be_bytes(token)

\* parse_control_packet accepting PING and PONG only
parse_control_packet_KnownTypes(data) ==
    IF Len(data) # BOND_PACKET_LEN THEN None
    ELSE IF SubSeq(data, 1, 4) # BOND_MAGIC THEN None
    ELSE IF data[5] \notin {BOND_PING, BOND_PONG} THEN None
    ELSE Some(<<data[5], from_be_bytes(SubSeq(data, 6, 13))>>)

\* parse_control_packet without the comparison with BOND_MAGIC
parse_control_packet_AnyMagic(data) ==
    IF Len(data) # BOND_PACKET_LEN THEN None
    ELSE Some(<<data[5], from_be_bytes(SubSeq(data, 6, 13))>>)

parse_control_packet(data) ==
    IF Len(data) # BOND_PACKET_LEN THEN None
    ELSE IF SubSeq(data, 1, 4) # BOND_MAGIC THEN None
    ELSE Some(<<data[5], from_be_bytes(SubSeq(data, 6, 13))>>)

-----------------------------------------------------------------------------
(* Link, wireguard.rs:27-36 and 424-495 *)

\* Instant::duration_since saturates to zero
duration_since(later, earlier) == IF later >= earlier THEN later - earlier ELSE 0

NewLink(remote, weight) ==
    [remote |-> remote, weight |-> weight, down_since |-> None,
     last_rx |-> None, last_ping_sent |-> None, last_rtt_ms |-> None]

\* The value returned and the link as the call leaves it (&mut self).
\* is_available matching (_, Some(last_ping)) where the code has (None, Some(last_ping))
is_available_PingAlways(self, t, backoff, timeout) ==
    IF is_none(self.remote) THEN [ret |-> FALSE, self |-> self]
    ELSE IF is_some(timeout) /\ is_some(self.last_rx)
            /\ duration_since(t, unwrap(self.last_rx)) > unwrap(timeout)
    THEN [ret |-> FALSE, self |-> [self EXCEPT !.down_since = Some(t)]]
    ELSE IF is_some(timeout) /\ is_some(self.last_ping_sent)
            /\ duration_since(t, unwrap(self.last_ping_sent)) > unwrap(timeout)
    THEN [ret |-> FALSE, self |-> [self EXCEPT !.down_since = Some(t)]]
    ELSE IF is_some(self.down_since)
            /\ duration_since(t, unwrap(self.down_since)) < backoff
    THEN [ret |-> FALSE, self |-> self]
    ELSE [ret |-> TRUE, self |-> self]

\* is_available without the backoff test of lines 459-463
is_available_NoBackoff(self, t, backoff, timeout) ==
    IF is_none(self.remote) THEN [ret |-> FALSE, self |-> self]
    ELSE IF is_some(timeout) /\ is_some(self.last_rx)
            /\ duration_since(t, unwrap(self.last_rx)) > unwrap(timeout)
    THEN [ret |-> FALSE, self |-> [self EXCEPT !.down_since = Some(t)]]
    ELSE IF is_some(timeout) /\ is_none(self.last_rx) /\ is_some(self.last_ping_sent)
            /\ duration_since(t, unwrap(self.last_ping_sent)) > unwrap(timeout)
    THEN [ret |-> FALSE, self |-> [self EXCEPT !.down_since = Some(t)]]
    ELSE [ret |-> TRUE, self |-> self]

\* is_available marking a link down that has neither received nor been pinged
is_available_MarkOnSilence(self, t, backoff, timeout) ==
    IF is_none(self.remote) THEN [ret |-> FALSE, self |-> self]
    ELSE IF /\ is_some(timeout)
            /\ is_some(self.last_rx)
            /\ duration_since(t, unwrap(self.last_rx)) > unwrap(timeout)
         THEN [ret |-> FALSE, self |-> [self EXCEPT !.down_since = Some(t)]]
    ELSE IF /\ is_some(timeout)
            /\ is_none(self.last_rx)
            /\ \/ is_none(self.last_ping_sent)
               \/ duration_since(t, unwrap(self.last_ping_sent)) > unwrap(timeout)
         THEN [ret |-> FALSE, self |-> [self EXCEPT !.down_since = Some(t)]]
    ELSE IF /\ is_some(self.down_since)
            /\ duration_since(t, unwrap(self.down_since)) < backoff
         THEN [ret |-> FALSE, self |-> self]
    ELSE [ret |-> TRUE, self |-> self]

\* is_available trusting a link whose down_since has been cleared
is_available_ClearedIsUp(self, t, backoff, timeout) ==
    IF is_none(self.remote) THEN [ret |-> FALSE, self |-> self]
    ELSE IF is_none(self.down_since) THEN [ret |-> TRUE, self |-> self]
    ELSE IF /\ is_some(timeout)
            /\ is_some(self.last_rx)
            /\ duration_since(t, unwrap(self.last_rx)) > unwrap(timeout)
         THEN [ret |-> FALSE, self |-> [self EXCEPT !.down_since = Some(t)]]
    ELSE IF /\ is_some(timeout)
            /\ is_none(self.last_rx)
            /\ is_some(self.last_ping_sent)
            /\ duration_since(t, unwrap(self.last_ping_sent)) > unwrap(timeout)
         THEN [ret |-> FALSE, self |-> [self EXCEPT !.down_since = Some(t)]]
    ELSE IF duration_since(t, unwrap(self.down_since)) < backoff
         THEN [ret |-> FALSE, self |-> self]
    ELSE [ret |-> TRUE, self |-> self]

is_available(self, t, backoff, timeout) ==
    IF is_none(self.remote) THEN [ret |-> FALSE, self |-> self]
    ELSE IF /\ is_some(timeout)
            /\ is_some(self.last_rx)
            /\ duration_since(t, unwrap(self.last_rx)) > unwrap(timeout)
         THEN [ret |-> FALSE, self |-> [self EXCEPT !.down_since = Some(t)]]
    ELSE IF /\ is_some(timeout)
            /\ is_none(self.last_rx)
            /\ is_some(self.last_ping_sent)
            /\ duration_since(t, unwrap(self.last_ping_sent)) > unwrap(timeout)
         THEN [ret |-> FALSE, self |-> [self EXCEPT !.down_since = Some(t)]]
    ELSE IF /\ is_some(self.down_since)
            /\ duration_since(t, unwrap(self.down_since)) < backoff
         THEN [ret |-> FALSE, self |-> self]
    ELSE [ret |-> TRUE, self |-> self]

record_rx(self, t) == [self EXCEPT !.last_rx = Some(t), !.down_since = None]

record_ping(self, t) == [self EXCEPT !.last_ping_sent = Some(t)]

\* record_rtt keeping a round-trip time that is already there
record_rtt_KeepFirst(self, rtt_ms) ==
    IF is_some(self.last_rtt_ms) THEN self ELSE [self EXCEPT !.last_rtt_ms = Some(rtt_ms)]

record_rtt(self, rtt_ms) == [self EXCEPT !.last_rtt_ms = Some(rtt_ms)]

\* record_send_ok leaving down_since as it is
record_send_ok_KeepDown(self) == self

record_send_ok(self) == [self EXCEPT !.down_since = None]

\* record_send_error keeping the instant of the first failure
record_send_error_KeepFirst(self, t) ==
    IF is_some(self.down_since) THEN self ELSE [self EXCEPT !.down_since = Some(t)]

record_send_error(self, t) == [self EXCEPT !.down_since = Some(t)]

-----------------------------------------------------------------------------
(* LinkManager, wireguard.rs:38-45 and 497-730.                            *)
(* `self` is the manager an operation works on: links, next_index,         *)
(* remaining_weight, and the send_to calls made so far (sent).  `oks` are  *)
(* the outcomes of the successive send_to calls: oks[k] is TRUE when the   *)
(* k-th call of the operation returns Ok.                                  *)

LmLen(self) == Cardinality(DOMAIN self.links)

has_endpoints(self) == \E i \in DOMAIN self.links : is_some(self.links[i].remote)

\* update_remote keeping a remote that is already set
update_remote_KeepRemote(self, index, src, t) ==
    IF index \in DOMAIN self.links
    THEN [self EXCEPT !.links[index] =
            record_rx(IF is_none(@.remote) THEN [@ EXCEPT !.remote = Some(src)] ELSE @, t)]
    ELSE self

update_remote(self, index, src, t) ==
    IF index \in DOMAIN self.links
    THEN [self EXCEPT !.links[index] = record_rx([@ EXCEPT !.remote = Some(src)], t)]
    ELSE self

\* send_to_link falling back to the configured endpoint when the link has no remote
send_to_link_DefaultRemote(self, index, packet, t, oks) ==
    LET remote == IF is_some(self.links[index].remote)
                  THEN unwrap(self.links[index].remote) ELSE "A"
        ok == oks[Len(self.sent) + 1]
        tx == [link |-> index, dst |-> remote, data |-> packet, ok |-> ok]
    IN  [self |-> [self EXCEPT
                     !.sent = Append(@, tx),
                     !.links[index] = IF ok THEN record_send_ok(@)
                                      ELSE record_send_error(@, t)],
         ret |-> ok]

send_to_link(self, index, packet, t, oks) ==
    IF is_none(self.links[index].remote) THEN [self |-> self, ret |-> FALSE]
    ELSE LET remote == unwrap(self.links[index].remote)
             ok == oks[Len(self.sent) + 1]
             tx == [link |-> index, dst |-> remote, data |-> packet, ok |-> ok]
         IN  [self |-> [self EXCEPT
                          !.sent = Append(@, tx),
                          !.links[index] = IF ok THEN record_send_ok(@)
                                           ELSE record_send_error(@, t)],
              ret |-> ok]

\* send_probe addressing the configured endpoint, whatever the remote is now
send_probe_ToConfigured(self, index, packet, t, oks) ==
    IF is_none(self.links[index].remote) THEN [self |-> self, ret |-> FALSE]
    ELSE LET ok == oks[Len(self.sent) + 1]
             tx == [link |-> index, dst |-> "A", data |-> packet, ok |-> ok]
         IN  [self |-> [self EXCEPT
                          !.sent = Append(@, tx),
                          !.links[index] = IF ok THEN record_send_ok(@)
                                           ELSE record_send_error(@, t)],
              ret |-> ok]

send_probe(self, index, packet, t, oks) ==
    IF is_none(self.links[index].remote) THEN [self |-> self, ret |-> FALSE]
    ELSE LET remote == unwrap(self.links[index].remote)
             ok == oks[Len(self.sent) + 1]
             tx == [link |-> index, dst |-> remote, data |-> packet, ok |-> ok]
         IN  [self |-> [self EXCEPT
                          !.sent = Append(@, tx),
                          !.links[index] = IF ok THEN record_send_ok(@)
                                           ELSE record_send_error(@, t)],
              ret |-> ok]

\* advance_cursor leaving remaining_weight as it is
advance_cursor_NoReset(self, len) ==
    [self EXCEPT !.next_index = (self.next_index + 1) % len]

advance_cursor(self, len) ==
    [self EXCEPT !.next_index = (self.next_index + 1) % len,
                 !.remaining_weight = 0]

\* the while loop of next_weighted_index, entered with `attempts` skips made
RECURSIVE next_weighted_loop(_, _, _)
next_weighted_loop(self, attempts, t) ==
    LET len == LmLen(self)
        index == self.next_index % len
        link == self.links[index]
        av == is_available(link, t, error_backoff, health_timeout)
        checked == [self EXCEPT !.links[index] = av.self]
        loaded == IF checked.remaining_weight = 0
                  THEN [checked EXCEPT !.remaining_weight = link.weight]
                  ELSE checked
        spent == [loaded EXCEPT !.remaining_weight = @ - 1]
    IN  IF attempts >= len THEN [self |-> self, ret |-> None]
        ELSE IF link.weight = 0
             THEN next_weighted_loop(advance_cursor(self, len), attempts + 1, t)
        ELSE IF ~av.ret
             THEN next_weighted_loop(advance_cursor(checked, len), attempts + 1, t)
        ELSE IF loaded.remaining_weight > 0
             THEN [self |-> IF spent.remaining_weight = 0
                            THEN advance_cursor(spent, len) ELSE spent,
                   ret |-> Some(index)]
        ELSE next_weighted_loop(advance_cursor(loaded, len), attempts + 1, t)

next_weighted_index(self, t) ==
    IF LmLen(self) = 0 THEN [self |-> self, ret |-> None]
    ELSE next_weighted_loop(self, 0, t)

\* the for loop of best_failover_index from link `index` on, best so far `best`
RECURSIVE best_failover_loop(_, _, _, _)
best_failover_loop(self, index, best, t) ==
    IF index >= LmLen(self)
    THEN [self |-> self, ret |-> IF is_some(best) THEN Some(unwrap(best)[1]) ELSE None]
    ELSE LET av == is_available(self.links[index], t, error_backoff, health_timeout)
             checked == [self EXCEPT !.links[index] = av.self]
             weight == self.links[index].weight
         IN  IF ~av.ret THEN best_failover_loop(checked, index + 1, best, t)
             ELSE IF is_some(best) /\ unwrap(best)[2] >= weight
                  THEN best_failover_loop(checked, index + 1, best, t)
             ELSE best_failover_loop(checked, index + 1, Some(<<index, weight>>), t)

\* best_failover_index taking the first available link, whatever its weight
best_failover_index_FirstAvailable(self, t) ==
    LET r == best_failover_loop(self, 0, None, t)
        av == {i \in DOMAIN self.links :
                  is_available(self.links[i], t, error_backoff, health_timeout).ret}
    IN  [self |-> r.self,
         ret |-> IF av = {} THEN None
                 ELSE Some(CHOOSE i \in av : \A j \in av : i <= j)]

best_failover_index(self, t) == best_failover_loop(self, 0, None, t)

\* the for loop of send_any from link `index` on
RECURSIVE send_any_loop(_, _, _, _, _)
send_any_loop(self, index, packet, t, oks) ==
    IF index >= LmLen(self) THEN [self |-> self, ret |-> FALSE]
    ELSE LET r == send_to_link(self, index, packet, t, oks)
         IN  IF r.ret THEN [self |-> r.self, ret |-> TRUE]
             ELSE send_any_loop(r.self, index + 1, packet, t, oks)

\* send_any passing over the links that are not available
RECURSIVE send_any_AvailableOnly_loop(_, _, _, _, _)
send_any_AvailableOnly_loop(self, index, packet, t, oks) ==
    IF index >= LmLen(self) THEN [self |-> self, ret |-> FALSE]
    ELSE IF ~is_available(self.links[index], t, error_backoff, health_timeout).ret
         THEN send_any_AvailableOnly_loop(self, index + 1, packet, t, oks)
    ELSE LET r == send_to_link(self, index, packet, t, oks)
         IN  IF r.ret THEN [self |-> r.self, ret |-> TRUE]
             ELSE send_any_AvailableOnly_loop(r.self, index + 1, packet, t, oks)

send_any_AvailableOnly(self, packet, t, oks) ==
    send_any_AvailableOnly_loop(self, 0, packet, t, oks)

\* send_any going on to the remaining links after a send that succeeded
RECURSIVE send_any_NoStop_loop(_, _, _, _, _)
send_any_NoStop_loop(self, index, packet, t, oks) ==
    IF index >= LmLen(self) THEN self
    ELSE send_any_NoStop_loop(send_to_link(self, index, packet, t, oks).self,
                              index + 1, packet, t, oks)

send_any_NoStop(self, packet, t, oks) ==
    LET r == send_any_NoStop_loop(self, 0, packet, t, oks)
    IN  [self |-> r,
         ret |-> \E k \in DOMAIN r.sent : k > Len(self.sent) /\ r.sent[k].ok]

send_any(self, packet, t, oks) == send_any_loop(self, 0, packet, t, oks)

\* the for loop of send_all from link `index` on
RECURSIVE send_all_loop(_, _, _, _, _)
send_all_loop(self, index, packet, t, oks) ==
    IF index >= LmLen(self) THEN self
    ELSE send_all_loop(send_to_link(self, index, packet, t, oks).self,
                       index + 1, packet, t, oks)

\* send_all stopping at the first link that takes the packet
send_all_FirstOnly(self, packet, t, oks) == send_any(self, packet, t, oks).self

send_all(self, packet, t, oks) == send_all_loop(self, 0, packet, t, oks)

\* the while loop of send_round_robin, entered with `attempts` failed sends
RECURSIVE send_round_robin_loop(_, _, _, _, _)
send_round_robin_loop(self, attempts, packet, t, oks) ==
    IF attempts >= LmLen(self) THEN send_any(self, packet, t, oks).self
    ELSE LET n == next_weighted_index(self, t)
             r == send_to_link(n.self, unwrap(n.ret), packet, t, oks)
         IN  IF is_none(n.ret) THEN send_any(n.self, packet, t, oks).self
             ELSE IF r.ret THEN r.self
             ELSE send_round_robin_loop(r.self, attempts + 1, packet, t, oks)

send_round_robin(self, packet, t, oks) ==
    IF LmLen(self) = 0 THEN self
    ELSE send_round_robin_loop(self, 0, packet, t, oks)

send_failover(self, packet, t, oks) ==
    LET b == best_failover_index(self, t)
        r == send_to_link(b.self, unwrap(b.ret), packet, t, oks)
    IN  IF is_some(b.ret) /\ r.ret THEN r.self
        ELSE IF is_some(b.ret) THEN send_any(r.self, packet, t, oks).self
        ELSE send_any(b.self, packet, t, oks).self

\* send_packet treating Redundant data like Failover data
send_packet_RedundantAsFailover(self, packet, t, oks) ==
    LET packet_type == wg_packet_type(packet)
        is_keepalive == packet_type = Some(4) /\ Len(packet) = WG_KEEPALIVE_LEN
    IN  IF is_some(packet_type) /\ unwrap(packet_type) \in 1..3
        THEN send_all(self, packet, t, oks)
        ELSE IF packet_type = Some(4) /\ is_keepalive
        THEN send_all(self, packet, t, oks)
        ELSE CASE mode = "Aggregate" -> send_round_robin(self, packet, t, oks)
               [] mode = "Redundant" -> send_failover(self, packet, t, oks)
               [] mode = "Failover" -> send_failover(self, packet, t, oks)

\* send_packet that broadcasts handshakes only
send_packet_KeepaliveAsData(self, packet, t, oks) ==
    LET packet_type == wg_packet_type(packet)
    IN  IF is_some(packet_type) /\ unwrap(packet_type) \in 1..3
        THEN send_all(self, packet, t, oks)
        ELSE CASE mode = "Aggregate" -> send_round_robin(self, packet, t, oks)
               [] mode = "Redundant" -> send_all(self, packet, t, oks)
               [] mode = "Failover" -> send_failover(self, packet, t, oks)

send_packet(self, packet, t, oks) ==
    LET packet_type == wg_packet_type(packet)
        is_keepalive == packet_type = Some(4) /\ Len(packet) = WG_KEEPALIVE_LEN
    IN  IF is_some(packet_type) /\ unwrap(packet_type) \in 1..3
        THEN send_all(self, packet, t, oks)
        ELSE IF packet_type = Some(4) /\ is_keepalive
        THEN send_all(self, packet, t, oks)
        ELSE CASE mode = "Aggregate" -> send_round_robin(self, packet, t, oks)
               [] mode = "Redundant" -> send_all(self, packet, t, oks)
               [] mode = "Failover" -> send_failover(self, packet, t, oks)

\* the for loop of send_health_pings from link `index` on
RECURSIVE send_health_pings_loop(_, _, _, _, _)
send_health_pings_loop(self, index, packet, t, oks) ==
    IF index >= LmLen(self) THEN self
    ELSE LET r == send_probe(self, index, packet, t, oks)
             pinged == IF r.ret
                       THEN [r.self EXCEPT !.links[index] = record_ping(@, t)]
                       ELSE r.self
         IN  send_health_pings_loop(pinged, index + 1, packet, t, oks)

\* send_health_pings recording a ping on every link with a remote
send_health_pings_RecordAll(self, elapsed, t, oks) ==
    LET r == send_health_pings_loop(self, 0, build_control_packet(BOND_PING, elapsed),
                                    t, oks)
    IN  [r EXCEPT !.links = [i \in DOMAIN r.links |->
                                IF is_some(r.links[i].remote)
                                THEN record_ping(r.links[i], t) ELSE r.links[i]]]

\* `elapsed` is epoch.elapsed().as_millis()
send_health_pings(self, elapsed, t, oks) ==
    send_health_pings_loop(self, 0, build_control_packet(BOND_PING, elapsed), t, oks)

\* handle_control_packet answering with its own clock, as a PING is built
handle_control_packet_PongElapsed(self, link_index, data, elapsed, t, oks) ==
    LET parsed == parse_control_packet(data)
        message_type == unwrap(parsed)[1]
        token == unwrap(parsed)[2]
    IN  IF is_none(parsed) THEN [self |-> self, ret |-> FALSE]
        ELSE IF message_type = BOND_PING
        THEN [self |-> send_probe(self, link_index,
                                  build_control_packet(BOND_PONG, elapsed), t, oks).self,
              ret |-> TRUE]
        ELSE IF message_type = BOND_PONG
        THEN [self |-> IF link_index \in DOMAIN self.links /\ elapsed >= token
                       THEN [self EXCEPT !.links[link_index] =
                                             record_rtt(@, elapsed - token)]
                       ELSE self,
              ret |-> TRUE]
        ELSE [self |-> self, ret |-> TRUE]

handle_control_packet(self, link_index, data, elapsed, t, oks) ==
    LET parsed == parse_control_packet(data)
        message_type == unwrap(parsed)[1]
        token == unwrap(parsed)[2]
    IN  IF is_none(parsed) THEN [self |-> self, ret |-> FALSE]
        ELSE IF message_type = BOND_PING
        THEN [self |-> send_probe(self, link_index,
                                  build_control_packet(BOND_PONG, token), t, oks).self,
              ret |-> TRUE]
        ELSE IF message_type = BOND_PONG
        THEN [self |-> IF link_index \in DOMAIN self.links /\ elapsed >= token
                       THEN [self EXCEPT !.links[link_index] =
                                             record_rtt(@, elapsed - token)]
                       ELSE self,
              ret |-> TRUE]
        ELSE [self |-> self, ret |-> TRUE]

-----------------------------------------------------------------------------
(* Inputs *)

\* every link is configured with endpoint A; the peer's datagrams arrive from B
ConfiguredEndpoint == "A"
PeerSources == {"B"}

\* Noise datagrams: the type is the first four bytes, little-endian
NoisePacket(type, len) == to_le_bytes(type) \o Zeros(len - 4)

PktInit == NoisePacket(1, 8)
PktResponse == NoisePacket(2, 8)
PktCookie == NoisePacket(3, 8)
PktKeepalive == NoisePacket(4, 32)
PktData == NoisePacket(4, 33)
PktUnknown == NoisePacket(5, 8)

HandshakePackets == {PktInit, PktResponse, PktCookie}
BroadcastPackets == HandshakePackets \cup {PktKeepalive}
DataPackets == {PktData, PktUnknown}
Packets == BroadcastPackets \cup DataPackets

Outcomes(k) == [1..k -> BOOLEAN]

-----------------------------------------------------------------------------
(* The state machine: the LinkManager under any sequence of calls.         *)
(* A call is made from the event loop's select (op.name = "idle") and      *)
(* leaves in `op` and `sent` what it was and what it transmitted; Return   *)
(* takes the loop back to select.                                          *)

Self == [links |-> links, next_index |-> next_index,
         remaining_weight |-> remaining_weight, sent |-> <<>>]

\* op.avail: the links is_available would accept when the call is made
NoOp(name) ==
    [name |-> name, packet |-> <<>>, index |-> 0, src |-> "", ret |-> FALSE, avail |-> {}]

Idle == op.name = "idle"

\* bond_epoch is the instant the event loop starts (wireguard.rs:139): time 0
Elapsed == now

\* is_available's verdict on link i of `ls` at time t, without its side effect
Available(ls, i, t) == is_available(ls[i], t, error_backoff, health_timeout).ret
AvailSet(ls, t) == {i \in DOMAIN ls : Available(ls, i, t)}

CallOp(name) == [NoOp(name) EXCEPT !.avail = AvailSet(links, now)]

\* what send_packet decides on, wireguard.rs:558-563
IsBroadcast(packet) ==
    LET packet_type == wg_packet_type(packet)
    IN  \/ is_some(packet_type) /\ unwrap(packet_type) \in 1..3
        \/ packet_type = Some(4) /\ Len(packet) = WG_KEEPALIVE_LEN

\* the most send_to calls one send_packet(packet) can make
MaxSendCalls(packet) ==
    LET n == LmLen(Self)
    IN  IF IsBroadcast(packet) \/ mode = "Redundant" THEN n
        ELSE IF mode = "Failover" THEN n + 1
        ELSE 2 * n

InitLinks(n, weights) ==
    [0..(n - 1) -> {NewLink(r, w) : r \in {None, Some(ConfiguredEndpoint)}, w \in weights}]

\* setup_links has spawned one receive task per link and the run task has
\* reached its loop; run_until_shutdown waits in its select
InitSupervisor ==
    /\ net_rx = <<>>
    /\ rx_tasks = DOMAIN links
    /\ run = "running"
    /\ decap = <<>>
    /\ tun = <<>>
    /\ last_src = [i \in DOMAIN links |-> None]
    /\ main = [state |-> "select", shutdown |-> "pending", branch |-> "none",
               result |-> None]
    /\ rx_held = [i \in DOMAIN links |-> None]
    /\ rx_read = [i \in DOMAIN links |-> 0]

InitManager(n, weights, backoffs, timeouts) ==
    /\ links \in InitLinks(n, weights)
    /\ mode \in BondingMode
    /\ error_backoff \in backoffs
    /\ health_timeout \in timeouts
    /\ next_index = 0
    /\ remaining_weight = 0
    /\ now = 0
    /\ sent = <<>>
    /\ op = NoOp("idle")
    /\ window = [from_init |-> TRUE, picks |-> <<>>]
    /\ InitSupervisor

Return ==
    /\ ~Idle
    /\ op' = NoOp("idle")
    /\ sent' = <<>>
    /\ UNCHANGED <<links, next_index, remaining_weight, now, window, cfgVars, supVars>>

TickBy(step, horizon) ==
    /\ Idle
    /\ now + step <= horizon
    /\ now' = now + step
    /\ UNCHANGED <<links, next_index, remaining_weight, sent, op, window, cfgVars, supVars>>

SendPacketOf(packets) ==
    /\ Idle
    /\ \E packet \in packets :
       \E oks \in Outcomes(MaxSendCalls(packet)) :
       \E r \in {send_packet(Self, packet, now, oks)} :
            /\ links' = r.links
            /\ next_index' = r.next_index
            /\ remaining_weight' = r.remaining_weight
            /\ sent' = r.sent
            /\ op' = [CallOp("send_packet") EXCEPT !.packet = packet]
            /\ UNCHANGED <<now, window, cfgVars, supVars>>

UpdateRemoteOf(addrs) ==
    /\ Idle
    /\ \E index \in DOMAIN links, src \in addrs :
       \E r \in {update_remote(Self, index, src, now)} :
            /\ links' = r.links
            /\ op' = [CallOp("update_remote") EXCEPT !.index = index, !.src = src]
            /\ UNCHANGED <<next_index, remaining_weight, sent, now, window, cfgVars, supVars>>

\* a health timer branch that probes whether or not a timeout is configured
HealthTick_Always ==
    /\ Idle
    /\ \E oks \in Outcomes(LmLen(Self)) :
       \E r \in {send_health_pings(Self, Elapsed, now, oks)} :
            /\ links' = r.links
            /\ sent' = r.sent
            /\ op' = CallOp("health_tick")
            /\ UNCHANGED <<next_index, remaining_weight, now, window, cfgVars, supVars>>

\* the health timer branch of the event loop, wireguard.rs:194-198
HealthTick ==
    /\ Idle
    /\ \E oks \in Outcomes(LmLen(Self)) :
       \E r \in {IF is_some(health_timeout)
                 THEN send_health_pings(Self, Elapsed, now, oks)
                 ELSE Self} :
            /\ links' = r.links
            /\ sent' = r.sent
            /\ op' = CallOp("health_tick")
            /\ UNCHANGED <<next_index, remaining_weight, now, window, cfgVars, supVars>>

HandleControlPacketOf(frames) ==
    /\ Idle
    /\ \E link_index \in DOMAIN links, data \in frames, oks \in Outcomes(1) :
       \E r \in {handle_control_packet(Self, link_index, data, Elapsed, now, oks)} :
            /\ links' = r.self.links
            /\ sent' = r.self.sent
            /\ op' = [CallOp("handle_control_packet") EXCEPT
                        !.index = link_index, !.packet = data, !.ret = r.ret]
            /\ UNCHANGED <<next_index, remaining_weight, now, window, cfgVars, supVars>>

-----------------------------------------------------------------------------
(* Spec: two links, every bonding mode, the calls made at instants that    *)
(* lie further apart than the health timeout.                              *)

MaxTicks == 1
TickStep == 2

Init == InitManager(2, {1, 2}, {2}, {None, Some(1)})

Tick == TickBy(TickStep, MaxTicks * TickStep)
SendPacket == SendPacketOf(Packets)
UpdateRemote == UpdateRemoteOf(PeerSources)
HandleControlPacket ==
    HandleControlPacketOf({build_control_packet(BOND_PING, Elapsed), PktData})

Next == Tick \/ SendPacket \/ UpdateRemote \/ HealthTick \/ HandleControlPacket \/ Return

Spec == Init /\ [][Next]_vars

-----------------------------------------------------------------------------
(* Properties of Spec *)

Links(tx) == {tx[k].link : k \in DOMAIN tx}
Count(tx, i) == Cardinality({k \in DOMAIN tx : tx[k].link = i})
HasRemote(ls) == {i \in DOMAIN ls : is_some(ls[i].remote)}
Rank(S, i) == Cardinality({j \in S : j < i}) + 1
NoiseType(packet) == from_le_bytes(SubSeq(packet, 1, 4))

\* C1: no operation, under any bonding mode and for any datagram, makes a
\* send_to on a link whose remote is None; every send_to is addressed to the
\* remote of its link.
C1_NoSendWithoutRemote ==
    \A k \in DOMAIN sent :
        /\ is_some(links[sent[k].link].remote)
        /\ sent[k].dst = unwrap(links[sent[k].link].remote)

\* a data packet went out although link 0 has no remote: it was passed over
C1_Witness ==
    /\ op.name = "send_packet"
    /\ op.packet \in DataPackets
    /\ is_none(links[0].remote)
    /\ sent # <<>>

\* C2: under every bonding mode, a send_packet call with a datagram of Noise
\* type 1, 2 or 3 makes a send_to with that datagram on every link that is
\* available when the call is made.
C2_HandshakeOnEveryAvailableLink ==
    (op.name = "send_packet" /\ Len(op.packet) >= 4 /\ NoiseType(op.packet) \in {1, 2, 3})
        => \A i \in op.avail :
              \E k \in DOMAIN sent : sent[k].link = i /\ sent[k].data = op.packet

\* a cookie reply (type 3) went out on both links, both available, in Aggregate mode
C2_Witness ==
    /\ op.name = "send_packet"
    /\ op.packet = PktCookie
    /\ mode = "Aggregate"
    /\ op.avail = {0, 1}
    /\ Links(sent) = {0, 1}

\* the available link of greatest weight, the lowest index among equals
BestOf(S) ==
    CHOOSE i \in S : \A j \in S :
        \/ links[i].weight > links[j].weight
        \/ links[i].weight = links[j].weight /\ i <= j

\* C4: in Failover mode the first send_to of a data packet is on the available
\* link of greatest weight, the lowest index among those of equal weight;
\* best_failover_index returns None exactly when no link is available, and
\* that link otherwise.
C4_FailoverPicksBest ==
    /\ (mode = "Failover" /\ op.name = "send_packet" /\ op.packet \in DataPackets
            /\ op.avail # {})
          => (sent # <<>> /\ sent[1].link = BestOf(op.avail))
    /\ LET b == best_failover_index(Self, now).ret
           av == AvailSet(links, now)
       IN  /\ is_none(b) <=> av = {}
           /\ is_some(b) => unwrap(b) = BestOf(av)

\* the heavier link 1 was tried first, and the call went on to link 0 after it failed
C4_Witness ==
    /\ mode = "Failover"
    /\ op.name = "send_packet"
    /\ op.packet = PktData
    /\ op.avail = {0, 1}
    /\ links[1].weight > links[0].weight
    /\ Len(sent) = 2 /\ sent[1].link = 1 /\ ~sent[1].ok /\ sent[2].link = 0

\* C5: in Redundant mode one send_packet call with a data packet makes exactly
\* one send_to, with that packet, on every link available at the call; it
\* makes none at all only if no link is available.
C5_RedundantOnEveryAvailableLink ==
    (mode = "Redundant" /\ op.name = "send_packet" /\ op.packet \in DataPackets)
        => /\ \A i \in op.avail :
                /\ Count(sent, i) = 1
                /\ \A k \in DOMAIN sent : sent[k].link = i => sent[k].data = op.packet
           /\ sent = <<>> => op.avail = {}

\* a data packet went out once on each of two available links
C5_Witness ==
    /\ mode = "Redundant"
    /\ op.name = "send_packet"
    /\ op.packet = PktData
    /\ op.avail = {0, 1}
    /\ Len(sent) = 2 /\ sent[1].ok /\ sent[2].ok

C10_UpdateRemote ==
    [][op'.name = "update_remote" =>
          LET L == op'.index
          IN  /\ links'[L].remote = Some(op'.src)
              /\ links'[L].last_rx = Some(now)
              /\ links'[L].down_since = None
              /\ links'[L].weight = links[L].weight
              /\ links'[L].last_ping_sent = links[L].last_ping_sent
              /\ links'[L].last_rtt_ms = links[L].last_rtt_ms
              /\ \A j \in DOMAIN links : j # L => links'[j] = links[j]
              /\ DOMAIN links' = DOMAIN links]_vars

\* a packet from B on link 1, at instant 2, took the place of the configured
\* endpoint; link 0 keeps its own
C10_Witness ==
    /\ op.name = "update_remote"
    /\ op.index = 1
    /\ now = TickStep
    /\ links[1].remote = Some("B")
    /\ links[1].last_rx = Some(TickStep)
    /\ links[0].remote = Some(ConfiguredEndpoint)
    /\ 1 \notin op.avail

-----------------------------------------------------------------------------
(* SpecBackoff: two links of weight 1, the clock advancing in steps        *)
(* shorter than error_backoff, so that calls are made inside a backoff.    *)

InitBackoff == InitManager(2, {1}, {2}, {None, Some(1)})

TickBackoff == TickBy(1, TickStep)
BackoffPackets == {PktInit, PktData}

SendPacketBackoff == SendPacketOf(BackoffPackets)
HandleControlPacketBackoff ==
    HandleControlPacketOf({build_control_packet(BOND_PING, Elapsed)})

NextBackoff ==
    \/ TickBackoff
    \/ SendPacketBackoff
    \/ UpdateRemote
    \/ HealthTick
    \/ HandleControlPacketBackoff
    \/ Return

SpecBackoff == InitBackoff /\ [][NextBackoff]_vars

\* link i is inside its backoff at instant t: a failure was recorded on it
\* less than error_backoff before
InBackoff(ls, i, t) ==
    /\ is_some(ls[i].down_since)
    /\ t - unwrap(ls[i].down_since) < error_backoff

\* the step is the receipt of a packet on link i
RxOn(i) == op'.name = "update_remote" /\ op'.index = i

\* the step makes a send_to on link i that returns Ok
SendOkOn(i) == \E k \in DOMAIN sent' : sent'[k].link = i /\ sent'[k].ok

\* link i is passed over by the Aggregate and the Failover selection
NotSelected(ls, i, t) ==
    LET m == [links |-> ls, next_index |-> next_index',
              remaining_weight |-> remaining_weight', sent |-> <<>>]
    IN  /\ ~is_available(ls[i], t, error_backoff, health_timeout).ret
        /\ next_weighted_index(m, t).ret # Some(i)
        /\ best_failover_index(m, t).ret # Some(i)

\* C7 as claimed: a link with a failure recorded at t, on which no packet is
\* received, stays excluded from data dispatch until error_backoff has
\* elapsed since t, whatever is sent on it in between.
C7_Original ==
    [][\A i \in DOMAIN links :
          (InBackoff(links, i, now') /\ ~RxOn(i)) => NotSelected(links', i, now')]_vars

\* C7 as the code has it: a link with a failure recorded at t stays excluded
\* from data dispatch until error_backoff has elapsed since t, as long as no
\* packet is received on it and no send on it succeeds; a send that succeeds
\* on it (a PING, a PONG reply, a broadcast, a last-resort data send) clears
\* down_since before the backoff is over.
C7_BackoffUntilRxOrSendOk ==
    [][\A i \in DOMAIN links :
          (InBackoff(links, i, now') /\ ~RxOn(i) /\ ~SendOkOn(i))
              => NotSelected(links', i, now')]_vars

\* one instant after a failed send on link 0, so inside its backoff, a data
\* packet is dispatched and goes to link 1
C7_Witness ==
    /\ links[0].down_since = Some(0)
    /\ now = 1
    /\ is_some(links[0].remote)
    /\ op.name = "send_packet"
    /\ op.packet = PktData
    /\ op.avail = {1}
    /\ Links(sent) = {1}

-----------------------------------------------------------------------------
(* SpecLink: is_available on one link in any state a Link can be in: every *)
(* field unset or set to an instant that is not later than `now`.          *)

MaxInstant == 3

OptInstant(t) == {None} \cup {Some(i) : i \in 0..t}

AnyLink(t) ==
    {[NewLink(remote, 1) EXCEPT !.down_since = down_since, !.last_rx = last_rx,
                                !.last_ping_sent = last_ping_sent] :
        remote \in {None, Some(ConfiguredEndpoint)},
        down_since \in OptInstant(t),
        last_rx \in OptInstant(t),
        last_ping_sent \in OptInstant(t)}

InitLink ==
    /\ now \in 0..MaxInstant
    /\ links \in [{0} -> AnyLink(now)]
    /\ mode = "Aggregate"
    /\ error_backoff \in {1, 2}
    /\ health_timeout \in {None, Some(1), Some(2)}
    /\ next_index = 0
    /\ remaining_weight = 0
    /\ sent = <<>>
    /\ op = NoOp("idle")
    /\ window = [from_init |-> TRUE, picks |-> <<>>]
    /\ InitSupervisor

IsAvailable ==
    /\ Idle
    /\ \E index \in DOMAIN links :
       \E r \in {is_available(links[index], now, error_backoff, health_timeout)} :
            /\ links' = [links EXCEPT ![index] = r.self]
            /\ op' = [NoOp("is_available") EXCEPT !.index = index, !.ret = r.ret]
            /\ UNCHANGED <<next_index, remaining_weight, sent, now, window, cfgVars, supVars>>

TickLink == TickBy(1, MaxInstant)

NextLink == IsAvailable \/ TickLink \/ Return

SpecLink == InitLink /\ [][NextLink]_vars

\* the health verdict of link L at instant t is "down"
NoRx(L, t) ==
    /\ is_some(L.last_rx)
    /\ t - unwrap(L.last_rx) > unwrap(health_timeout)

NoPong(L, t) ==
    /\ is_none(L.last_rx)
    /\ is_some(L.last_ping_sent)
    /\ t - unwrap(L.last_ping_sent) > unwrap(health_timeout)

\* C9: is_available(now, backoff, timeout) returns true if and only if the
\* link has a remote, and (when timeout is Some) neither "last_rx is set and
\* now - last_rx > timeout" nor "last_rx is unset, last_ping_sent is set and
\* now - last_ping_sent > timeout" holds, and down_since is unset or
\* now - down_since >= backoff.
C9_IsAvailable ==
    [][op'.name = "is_available" =>
          LET L == links[op'.index]
          IN  op'.ret <=>
                /\ is_some(L.remote)
                /\ is_some(health_timeout) => (~NoRx(L, now) /\ ~NoPong(L, now))
                /\ \/ is_none(L.down_since)
                   \/ now - unwrap(L.down_since) >= error_backoff]_vars

\* is_available returned true for a link whose last ping is older than the
\* timeout but which has received since, and whose backoff ended just now
C9_Witness ==
    /\ op.name = "is_available"
    /\ op.ret
    /\ health_timeout = Some(1)
    /\ error_backoff = 2
    /\ now = MaxInstant
    /\ links[0].last_ping_sent = Some(0)
    /\ links[0].last_rx = Some(now - 1)
    /\ links[0].down_since = Some(now - 2)

\* C27: is_available sets the link's down_since to now, and returns false,
\* exactly when probing is enabled, the link has a remote, and either last_rx
\* is set with now - last_rx > timeout, or last_rx is unset and last_ping_sent
\* is set with now - last_ping_sent > timeout; in every other case, also with
\* probing enabled and both last_rx and last_ping_sent unset, it leaves
\* down_since and every other field of the link as they were.
C27_IsAvailableEffect ==
    [][op'.name = "is_available" =>
          LET L == links[op'.index]
              marks == /\ is_some(health_timeout)
                       /\ is_some(L.remote)
                       /\ (NoRx(L, now) \/ NoPong(L, now))
          IN  /\ marks => (links'[op'.index] = [L EXCEPT !.down_since = Some(now)]
                             /\ ~op'.ret)
              /\ ~marks => links'[op'.index] = L
              /\ \A j \in DOMAIN links \ {op'.index} : links'[j] = links[j]]_vars

\* the "no pong" verdict: the link was marked down at the instant of the call
C27_Witness ==
    /\ op.name = "is_available"
    /\ ~op.ret
    /\ health_timeout = Some(2)
    /\ now = MaxInstant
    /\ links[0].last_rx = None
    /\ links[0].last_ping_sent = Some(0)
    /\ links[0].down_since = Some(now)

\* probing enabled, nothing received and no ping sent: an old down_since,
\* past its backoff, is left as it is and the link is available
C27_WitnessSilent ==
    /\ op.name = "is_available"
    /\ op.ret
    /\ health_timeout = Some(1)
    /\ now = MaxInstant
    /\ links[0].last_rx = None
    /\ links[0].last_ping_sent = None
    /\ links[0].down_since = Some(0)

-----------------------------------------------------------------------------
(* SpecHealth: health probing enabled, timeout 2, the health timer firing  *)
(* at every instant (interval 1 < timeout) and sending the PINGs; packets  *)
(* arrive and data packets are dispatched in between.                      *)

InitHealth == InitManager(2, {1}, {1}, {Some(2)})

\* health_timer.tick() of the event loop, wireguard.rs:138 and 194-198:
\* `interval` after the previous tick, send_health_pings runs
HealthTimerBy(interval, horizon) ==
    /\ Idle
    /\ is_some(health_timeout)
    /\ now + interval <= horizon
    /\ \E oks \in Outcomes(LmLen(Self)) :
       \E r \in {send_health_pings(Self, now + interval, now + interval, oks)} :
            /\ now' = now + interval
            /\ links' = r.links
            /\ sent' = r.sent
            /\ op' = CallOp("health_tick")
            /\ UNCHANGED <<next_index, remaining_weight, window, cfgVars, supVars>>

HealthTimer == HealthTimerBy(1, MaxInstant)
HealthPackets == {PktData}

SendPacketHealth == SendPacketOf(HealthPackets)

NextHealth == HealthTimer \/ SendPacketHealth \/ UpdateRemote \/ Return

SpecHealth == InitHealth /\ [][NextHealth]_vars

\* nothing has been received on link i for longer than the health timeout:
\* since its last packet, or since the start (instant 0) if it never had one
Silent(i) ==
    IF is_some(links[i].last_rx)
    THEN now - unwrap(links[i].last_rx) > unwrap(health_timeout)
    ELSE now > unwrap(health_timeout)

\* C8: with health probing enabled and PINGs sent on every health tick, a
\* link with a remote on which nothing is received for longer than
\* health_check_timeout is down (is_available returns false for it), whether
\* it received packets earlier or never received anything.
C8_SilentLinkIsDown ==
    \A i \in DOMAIN links :
        (is_some(health_timeout) /\ is_some(links[i].remote) /\ Silent(i))
            => ~Available(links, i, now)

\* the half of C8 the code does keep: a link that received earlier and has
\* been silent for longer than the timeout is down
ReceivedThenSilentIsDown ==
    \A i \in DOMAIN links :
        (is_some(health_timeout) /\ is_some(links[i].remote)
            /\ is_some(links[i].last_rx) /\ Silent(i))
            => ~Available(links, i, now)

-----------------------------------------------------------------------------
(* SpecAgg: Aggregate mode over three links of weights 3, 1, 2.  `window`  *)
(* records the links that carried the latest data packets of the current   *)
(* steady period: a run of calls over which the set of available links     *)
(* (window.avail) stays the same and every send of a data packet succeeds. *)
(* Handshake broadcasts, which fail or succeed link by link, take links    *)
(* out of the available set and bring them back.                           *)

RECURSIVE SumWeights(_, _)
SumWeights(ls, S) ==
    IF S = {} THEN 0
    ELSE LET i == CHOOSE j \in S : TRUE
         IN  ls[i].weight + SumWeights(ls, S \ {i})

LastN(seq, n) ==
    IF Len(seq) <= n THEN seq ELSE SubSeq(seq, Len(seq) - n + 1, Len(seq))

AggWeights == <<3, 1, 2>>

InitAgg ==
    /\ \E remotes \in [0..2 -> {None, Some(ConfiguredEndpoint)}] :
          links = [i \in 0..2 |-> NewLink(remotes[i], AggWeights[i + 1])]
    /\ mode = "Aggregate"
    /\ error_backoff = 2
    /\ health_timeout \in {None, Some(1)}
    /\ next_index = 0
    /\ remaining_weight = 0
    /\ now = 0
    /\ sent = <<>>
    /\ op = NoOp("idle")
    /\ window = [from_init |-> TRUE, picks |-> <<>>, avail |-> AvailSet(links, 0)]
    /\ InitSupervisor

\* the first `failed` send_to calls of an operation return Err, the others Ok
FailFirst(k) == {[j \in 1..k |-> j > failed] : failed \in 0..k}

\* send_packet, and what it does to the steady period
SendPacketAgg ==
    /\ Idle
    /\ \E packet \in {PktData, PktInit} :
       \E oks \in IF packet \in DataPackets THEN FailFirst(MaxSendCalls(packet))
                                            ELSE Outcomes(MaxSendCalls(packet)) :
       \E r \in {send_packet(Self, packet, now, oks)} :
       LET pre == AvailSet(links, now)
           post == AvailSet(r.links, now)
           data_ok == \A k \in DOMAIN r.sent : r.sent[k].ok
           longest == SumWeights(links, DOMAIN links) + 1
       IN   /\ links' = r.links
            /\ next_index' = r.next_index
            /\ remaining_weight' = r.remaining_weight
            /\ sent' = r.sent
            /\ op' = [CallOp("send_packet") EXCEPT !.packet = packet]
            /\ window' =
                 IF packet \notin DataPackets
                 THEN IF pre = window.avail /\ post = pre THEN window
                      ELSE [from_init |-> FALSE, picks |-> <<>>, avail |-> post]
                 ELSE IF post = pre /\ data_ok /\ Len(r.sent) = 1
                 THEN IF pre = window.avail
                      THEN [from_init |-> window.from_init /\ Len(window.picks) < longest,
                            picks |-> LastN(Append(window.picks, r.sent[1].link), longest),
                            avail |-> pre]
                      ELSE [from_init |-> FALSE, picks |-> <<r.sent[1].link>>,
                            avail |-> pre]
                 ELSE [from_init |-> FALSE, picks |-> <<>>, avail |-> post]
            /\ UNCHANGED <<now, cfgVars, supVars>>

NextAgg == SendPacketAgg \/ Tick \/ Return

SpecAgg == InitAgg /\ [][NextAgg]_vars

IsPrefix(a, b) == Len(a) <= Len(b) /\ a = SubSeq(b, 1, Len(a))

\* C3: in Aggregate mode, while the set of available links stays the same and
\* every send succeeds, any sum(w_i) consecutive data send_packet calls put
\* exactly w_i datagrams on each available link i and none on the others;
\* from the initial scheduler state with weights 3, 1, 2 and all links
\* available, the first seven data sends go to links 0, 0, 0, 1, 2, 2, 0.
C3_WeightedRoundRobin ==
    LET total == SumWeights(links, window.avail)
        last == LastN(window.picks, total)
    IN  /\ window.avail # {} =>
              \A k \in DOMAIN window.picks : window.picks[k] \in window.avail
        /\ Len(window.picks) >= total =>
              \A i \in DOMAIN links :
                  Count([k \in DOMAIN last |-> [link |-> last[k]]], i)
                      = IF i \in window.avail THEN links[i].weight ELSE 0
        /\ (window.from_init /\ window.avail = DOMAIN links) =>
              IsPrefix(window.picks, <<0, 0, 0, 1, 2, 2, 0>>)

\* seven data sends from the start, all three links available throughout
C3_Witness ==
    /\ window.from_init
    /\ window.avail = {0, 1, 2}
    /\ window.picks = <<0, 0, 0, 1, 2, 2, 0>>

\* a steady period that began in the middle of link 0's share, with link 1
\* not available: the last five data sends
C3_WitnessPartial ==
    /\ ~window.from_init
    /\ window.avail = {0, 2}
    /\ Len(window.picks) >= 5
    /\ LastN(window.picks, 5) = <<0, 2, 2, 0, 0>>

-----------------------------------------------------------------------------
(* The Supervisor: handle_incoming and the event loop of run,              *)
(* wireguard.rs:141-241.  Tunn (boringtun) and the TUN device are outside  *)
(* the program: what encapsulate, decapsulate and update_timers return,    *)
(* and whether a TUN read or write succeeds, are inputs of the events.     *)

Ok == "Ok"
Err == "Err"

\* TunnResult
WriteToNetwork(packet) == [kind |-> "WriteToNetwork", data |-> packet]
WriteToTunnel(payload) == [kind |-> "WriteToTunnel", data |-> payload]
Done == [kind |-> "Done", data |-> <<>>]
TunnErr == [kind |-> "Err", data |-> <<>>]

NetPacket(link_index, src, data) == [link_index |-> link_index, src |-> src, data |-> data]

\* a send_packet that returns the error of a send_to that failed
send_packet_Result_Propagate(self, packet, t, oks) ==
    LET tx == send_packet(self, packet, t, oks).sent
    IN  IF \E k \in DOMAIN tx : k > Len(self.sent) /\ ~tx[k].ok THEN Err ELSE Ok

\* the Result of send_packet: every path ends in Ok(()), wireguard.rs:557-624
send_packet_Result(self, packet, t, oks) == Ok

\* the Result of send_health_pings, wireguard.rs:523
send_health_pings_Result(self, elapsed, t, oks) == Ok

\* the loop of handle_incoming, wireguard.rs:222-240.  results[k] is what the
\* k-th call of decapsulate returns; `fed` lists the calls made so far: the
\* datagram handed over and the kind of result that came back.
RECURSIVE decapsulate_loop(_, _, _, _, _, _, _)
decapsulate_loop(self, datagram, fed, results, t, oks, tun_ok) ==
    LET result == results[Len(fed) + 1]
        called == Append(fed, [data |-> datagram, kind |-> result.kind])
    IN  CASE result.kind = "WriteToNetwork" ->
               IF send_packet_Result(self, result.data, t, oks) = Err
               THEN [self |-> send_packet(self, result.data, t, oks),
                     decap |-> called, tun |-> <<>>, result |-> Err]
               ELSE decapsulate_loop(send_packet(self, result.data, t, oks),
                                     <<>>, called, results, t, oks, tun_ok)
          [] result.kind = "WriteToTunnel" ->
               [self |-> self, decap |-> called,
                tun |-> <<[data |-> result.data, ok |-> tun_ok]>>,
                result |-> IF tun_ok THEN Ok ELSE Err]
          [] result.kind = "Done" ->
               [self |-> self, decap |-> called, tun |-> <<>>, result |-> Ok]
          [] result.kind = "Err" ->
               [self |-> self, decap |-> called, tun |-> <<>>, result |-> Ok]

\* handle_incoming that returns the decapsulate error to the loop
handle_incoming_ErrIsFatal(self, packet, elapsed, t, results, oks, tun_ok) ==
    LET c == handle_control_packet(self, packet.link_index, packet.data, elapsed, t, oks)
        r == decapsulate_loop(c.self, packet.data, <<>>, results, t, oks, tun_ok)
    IN  IF c.ret
        THEN [self |-> c.self, decap |-> <<>>, tun |-> <<>>, result |-> Ok]
        ELSE IF r.decap[Len(r.decap)].kind = "Err" THEN [r EXCEPT !.result = Err]
        ELSE r

\* handle_incoming that logs a failed write to the TUN device and goes on
handle_incoming_TunErrIgnored(self, packet, elapsed, t, results, oks, tun_ok) ==
    LET c == handle_control_packet(self, packet.link_index, packet.data, elapsed, t, oks)
        r == decapsulate_loop(c.self, packet.data, <<>>, results, t, oks, tun_ok)
    IN  IF c.ret
        THEN [self |-> c.self, decap |-> <<>>, tun |-> <<>>, result |-> Ok]
        ELSE [r EXCEPT !.result = Ok]

\* handle_incoming, wireguard.rs:205-241
handle_incoming(self, packet, elapsed, t, results, oks, tun_ok) ==
    LET c == handle_control_packet(self, packet.link_index, packet.data, elapsed, t, oks)
    IN  IF c.ret
        THEN [self |-> c.self, decap |-> <<>>, tun |-> <<>>, result |-> Ok]
        ELSE decapsulate_loop(c.self, packet.data, <<>>, results, t, oks, tun_ok)

\* a match that passes over TunnResult::Err as it does over Done
tunnel_output_ErrIgnored(self, result, t, oks) ==
    CASE result.kind = "WriteToNetwork" ->
           [self |-> send_packet(self, result.data, t, oks),
            result |-> send_packet_Result(self, result.data, t, oks)]
      [] OTHER -> [self |-> self, result |-> Ok]

\* the match on what encapsulate (wireguard.rs:148-160) and update_timers
\* (wireguard.rs:181-191) return
tunnel_output(self, result, t, oks) ==
    CASE result.kind = "WriteToNetwork" ->
           [self |-> send_packet(self, result.data, t, oks),
            result |-> send_packet_Result(self, result.data, t, oks)]
      [] result.kind = "Done" -> [self |-> self, result |-> Ok]
      [] result.kind = "Err" -> [self |-> self, result |-> Err]
      [] result.kind = "WriteToTunnel" -> [self |-> self, result |-> Ok]

Running == Idle /\ run = "running"

\* the datagram Tunn asks to send, if it asks for one (a keepalive otherwise)
NetData(results) ==
    LET asked == {k \in DOMAIN results : results[k].kind = "WriteToNetwork"}
    IN  IF asked = {} THEN PktKeepalive
        ELSE results[CHOOSE k \in asked : \A j \in asked : k <= j].data

\* the outcomes of the send_to calls that follow `output`
OutputOutcomes(output) ==
    IF output.kind = "WriteToNetwork" THEN Outcomes(MaxSendCalls(output.data))
    ELSE Outcomes(0)

\* an event ends: the LinkManager is as the event left it, and the loop goes
\* on unless the event returned an error (the `?` and the `return Err`)
EndEvent(self, result) ==
    /\ links' = self.links
    /\ next_index' = self.next_index
    /\ remaining_weight' = self.remaining_weight
    /\ sent' = self.sent
    /\ run' = IF result = Ok THEN "running" ELSE Err

\* a receive task, wireguard.rs:284-307: recv_from returns a datagram and the
\* task queues it (tx.send waits while the channel is full)
RecvFromOf(srcs, frames, capacity) ==
    /\ Running
    /\ Len(net_rx) < capacity
    /\ \E index \in rx_tasks, src \in srcs, data \in frames :
          net_rx' = Append(net_rx, NetPacket(index, src, data))
    /\ UNCHANGED <<links, next_index, remaining_weight, now, sent, op, window, cfgVars,
                   rx_tasks, run, decap, tun, last_src, main, chanVars>>

\* a receive task, wireguard.rs:301-304: recv_from fails and the task ends,
\* dropping its Sender
RecvError ==
    /\ Running
    /\ \E index \in rx_tasks :
          /\ rx_held[index] = None
          /\ rx_tasks' = rx_tasks \ {index}
    /\ UNCHANGED <<links, next_index, remaining_weight, now, sent, op, window, cfgVars,
                   net_rx, run, decap, tun, last_src, main, chanVars>>

\* a receive branch that learns the source only from datagrams that are not
\* control frames
NetRxOf_ClassifyFirst(resultses) ==
    /\ Running
    /\ net_rx # <<>>
    /\ LET packet == Head(net_rx)
           learned == IF is_some(parse_control_packet(packet.data)) THEN Self
                      ELSE update_remote(Self, packet.link_index, packet.src, now)
       IN  \E results \in resultses, tun_ok \in BOOLEAN :
           \E oks \in Outcomes(MaxSendCalls(NetData(results))) :
           \E r \in {handle_incoming(learned, packet, Elapsed, now, results, oks, tun_ok)} :
                /\ EndEvent(r.self, r.result)
                /\ decap' = r.decap
                /\ tun' = r.tun
                /\ net_rx' = Tail(net_rx)
                /\ last_src' = [last_src EXCEPT ![packet.link_index] = Some(packet.src)]
                /\ op' = [NoOp("net_rx") EXCEPT !.index = packet.link_index,
                             !.src = packet.src, !.packet = packet.data,
                             !.ret = r.result = Ok]
    /\ UNCHANGED <<now, window, cfgVars, rx_tasks, main, chanVars>>

\* net_rx.recv() returns Some(packet), wireguard.rs:163-178
NetRxOf(resultses) ==
    /\ Running
    /\ net_rx # <<>>
    /\ LET packet == Head(net_rx)
       IN  \E results \in resultses, tun_ok \in BOOLEAN :
           \E oks \in Outcomes(MaxSendCalls(NetData(results))) :
           \E r \in {handle_incoming(update_remote(Self, packet.link_index, packet.src, now),
                                     packet, Elapsed, now, results, oks, tun_ok)} :
                /\ EndEvent(r.self, r.result)
                /\ decap' = r.decap
                /\ tun' = r.tun
                /\ net_rx' = Tail(net_rx)
                /\ last_src' = [last_src EXCEPT ![packet.link_index] = Some(packet.src)]
                /\ op' = [NoOp("net_rx") EXCEPT !.index = packet.link_index,
                             !.src = packet.src, !.packet = packet.data,
                             !.ret = r.result = Ok]
    /\ UNCHANGED <<now, window, cfgVars, rx_tasks, main, chanVars>>

\* a loop that breaks as soon as one receive task has ended
NetRxClosed_OnFirstDeath ==
    /\ Idle /\ run = "running"
    /\ rx_tasks # DOMAIN links
    /\ run' = Ok
    /\ UNCHANGED <<links, next_index, remaining_weight, now, sent, op, window, cfgVars,
                   net_rx, rx_tasks, decap, tun, last_src, main, chanVars>>

\* net_rx.recv() returns None, wireguard.rs:166 and 202: every Sender is
\* dropped and the channel is empty; the loop breaks and run returns Ok(())
NetRxClosed ==
    /\ Running
    /\ net_rx = <<>>
    /\ rx_tasks = {}
    /\ run' = Ok
    /\ UNCHANGED <<links, next_index, remaining_weight, now, sent, op, window, cfgVars,
                   net_rx, rx_tasks, decap, tun, last_src, main, chanVars>>

\* device.read_packet, wireguard.rs:143-161
TunReadOf(outputs) ==
    /\ Running
    /\ \E read \in {"Err", "Zero", "Packet"} :
       \E output \in IF read = "Packet" THEN outputs ELSE {Done} :
       \E oks \in OutputOutcomes(output) :
       \E r \in {IF read = "Err" THEN [self |-> Self, result |-> Err]
                 ELSE tunnel_output(Self, output, now, oks)} :
            /\ EndEvent(r.self, r.result)
            /\ op' = [CallOp("tun_read") EXCEPT !.packet = output.data,
                         !.src = IF read = "Packet" THEN output.kind ELSE read,
                         !.ret = r.result = Ok]
    /\ UNCHANGED <<now, window, cfgVars, net_rx, rx_tasks, decap, tun, last_src, main, chanVars>>

\* wg_timer.tick(), wireguard.rs:180-192
WgTimerOf(outputs) ==
    /\ Running
    /\ \E output \in outputs :
       \E oks \in OutputOutcomes(output) :
       \E r \in {tunnel_output(Self, output, now, oks)} :
            /\ EndEvent(r.self, r.result)
            /\ op' = [CallOp("wg_timer") EXCEPT !.packet = output.data,
                         !.src = output.kind, !.ret = r.result = Ok]
    /\ UNCHANGED <<now, window, cfgVars, net_rx, rx_tasks, decap, tun, last_src, main, chanVars>>

\* health_timer.tick(), wireguard.rs:194-198
HealthTimerRun ==
    /\ Running
    /\ \E oks \in Outcomes(LmLen(Self)) :
       \E r \in {IF is_some(health_timeout)
                 THEN [self |-> send_health_pings(Self, Elapsed, now, oks),
                       result |-> send_health_pings_Result(Self, Elapsed, now, oks)]
                 ELSE [self |-> Self, result |-> Ok]} :
            /\ EndEvent(r.self, r.result)
            /\ op' = [CallOp("health_tick") EXCEPT !.ret = r.result = Ok]
    /\ UNCHANGED <<now, window, cfgVars, net_rx, rx_tasks, decap, tun, last_src, main, chanVars>>

\* back to the select of the loop (or out of it, when the event ended run)
ReturnRun ==
    /\ ~Idle
    /\ op' = NoOp("idle")
    /\ sent' = <<>>
    /\ decap' = <<>>
    /\ tun' = <<>>
    /\ UNCHANGED <<links, next_index, remaining_weight, now, window, cfgVars,
                   net_rx, rx_tasks, run, last_src, main, chanVars>>

-----------------------------------------------------------------------------
(* SpecRun: the event loop over two links of weight 1, in every bonding    *)
(* mode, with health probing on.  Datagrams arrive from the configured     *)
(* endpoint A and from B; Tunn and the TUN device answer in every way.     *)

MaxQueue == 1

InnerPacket == <<69>>

RunSources == {ConfiguredEndpoint, "B"}

RunFrames == {build_control_packet(BOND_PING, 7), PktData}

DecapResults ==
    { <<Done>>, <<TunnErr>>, <<WriteToTunnel(InnerPacket)>>,
      <<WriteToNetwork(PktResponse), Done>>,
      <<WriteToNetwork(PktResponse), TunnErr>>,
      <<WriteToNetwork(PktResponse), WriteToTunnel(InnerPacket)>> }

\* what encapsulate and update_timers may return
TunOutputs == {WriteToNetwork(PktData), Done, TunnErr, WriteToTunnel(InnerPacket)}

TimerOutputs == {WriteToNetwork(PktKeepalive), Done, TunnErr}

InitRun == InitManager(2, {1}, {2}, {Some(1)})

RecvFrom == RecvFromOf(RunSources, RunFrames, MaxQueue)
NetRx == NetRxOf(DecapResults)
TunRead == TunReadOf(TunOutputs)
WgTimer == WgTimerOf(TimerOutputs)

NextRun ==
    \/ RecvFrom
    \/ NetRx
    \/ TunRead
    \/ WgTimer
    \/ HealthTimerRun
    \/ ReturnRun

SpecRun == InitRun /\ [][NextRun]_vars

-----------------------------------------------------------------------------
(* Properties of SpecRun *)

\* the last send_to of the event on link i returned Err
LastSendFailed(i) ==
    /\ i \in Links(sent)
    /\ LET last == CHOOSE k \in DOMAIN sent :
                      /\ sent[k].link = i
                      /\ \A j \in DOMAIN sent : sent[j].link = i => j <= k
       IN  ~sent[last].ok

\* C11: every datagram sent on link i is addressed to the source of the
\* NetPacket most recently taken from the receive queue for link i, or to the
\* configured endpoint if none has been taken yet; once a packet from B has
\* been processed on a link (and none from elsewhere since), the sends on
\* that link go to B and not to the configured endpoint A.
C11_SendsFollowLastSource ==
    \A k \in DOMAIN sent :
        LET i == sent[k].link
        IN  /\ sent[k].dst = IF is_some(last_src[i]) THEN unwrap(last_src[i])
                             ELSE ConfiguredEndpoint
            /\ last_src[i] = Some("B") =>
                  (sent[k].dst = "B" /\ sent[k].dst # ConfiguredEndpoint)

\* a data packet read from the TUN goes to B on link 0, where a packet from B
\* was processed, and to A on link 1, where nothing was received
C11_Witness ==
    /\ op.name = "tun_read"
    /\ mode = "Redundant"
    /\ last_src = (0 :> Some("B") @@ 1 :> None)
    /\ Len(sent) = 2
    /\ sent[1].link = 0 /\ sent[1].dst = "B"
    /\ sent[2].link = 1 /\ sent[2].dst = ConfiguredEndpoint

\* C16: when decapsulate rejects an inbound datagram, handle_incoming returns
\* Ok, nothing is written to the TUN device and the event loop keeps running.
C16_DecapsulateErrorAbsorbed ==
    (op.name = "net_rx" /\ \E k \in DOMAIN decap : decap[k].kind = "Err")
        => /\ op.ret
           /\ tun = <<>>
           /\ run = "running"

\* decapsulate asked for a handshake response to be sent, then rejected the
\* rest; the loop is still running
C16_Witness ==
    /\ op.name = "net_rx"
    /\ op.packet = PktData
    /\ Len(decap) = 2
    /\ decap[1] = [data |-> PktData, kind |-> "WriteToNetwork"]
    /\ decap[2] = [data |-> <<>>, kind |-> "Err"]
    /\ sent # <<>>
    /\ run = "running"

\* C17: send_packet and send_health_pings return Ok for every packet, every
\* bonding mode and every combination of send outcomes, so an event that
\* only sends leaves the loop running; a link whose last send of the event
\* failed is marked down at that instant.
C17_SendErrorsAbsorbed ==
    /\ (op.name \in {"tun_read", "wg_timer"} /\ op.src = "WriteToNetwork")
          => (op.ret /\ run = "running")
    /\ op.name = "health_tick" => (op.ret /\ run = "running")
    /\ \A i \in DOMAIN links :
          LastSendFailed(i) => links[i].down_since = Some(now)

\* a data packet failed on both links, first on one, then twice in send_any
C17_Witness ==
    /\ op.name = "tun_read"
    /\ op.packet = PktData
    /\ mode = "Failover"
    /\ Len(sent) = 3
    /\ \A k \in DOMAIN sent : ~sent[k].ok
    /\ Links(sent) = {0, 1}
    /\ run = "running"
    /\ \A i \in DOMAIN links : links[i].down_since = Some(now)

-----------------------------------------------------------------------------
(* SpecRx: the receive branch alone, Failover mode, fed with control       *)
(* frames of every type, with datagrams that differ from a control frame   *)
(* in length or in magic only, and with a data packet.                     *)

BigToken == 16909060

RxFrames ==
    { build_control_packet(BOND_PING, 7),
      build_control_packet(BOND_PING, BigToken),
      build_control_packet(BOND_PONG, 0),
      build_control_packet(9, 7),
      BOND_MAGIC \o Zeros(8),
      BOND_MAGIC \o Zeros(10),
      <<86, 84, 66, 69, 1>> \o Zeros(8),
      <<>>,
      PktData }

InitRx == InitManager(2, {1}, {2}, {Some(1)}) /\ mode = "Failover"

RecvFromRx == RecvFromOf(RunSources, RxFrames, MaxQueue)
RxResults ==
    { <<Done>>, <<TunnErr>>,
      <<WriteToNetwork(PktResponse), WriteToTunnel(InnerPacket)>> }

NetRxRx == NetRxOf(RxResults)

NextRx == RecvFromRx \/ NetRxRx \/ ReturnRun

SpecRx == InitRx /\ [][NextRx]_vars

\* a datagram of exactly 13 bytes that starts with 'VTBD'
IsControlFrame(data) ==
    /\ Len(data) = 13
    /\ SubSeq(data, 1, 4) = <<86, 84, 66, 68>>

IsPing(data) == IsControlFrame(data) /\ data[5] = 1
IsPong(data) == IsControlFrame(data) /\ data[5] = 2
TokenBytes(data) == SubSeq(data, 6, 13)

\* C12: an inbound datagram is handed to decapsulate if and only if it is not
\* a control frame: a datagram of exactly 13 bytes starting with 'VTBD',
\* whatever its type byte, never reaches Noise, and every other datagram
\* is handed to decapsulate with its bytes unchanged.
C12_ControlFramesNeverReachNoise ==
    op.name = "net_rx" =>
        /\ IsControlFrame(op.packet) => (decap = <<>> /\ tun = <<>> /\ op.ret)
        /\ ~IsControlFrame(op.packet) => (decap # <<>> /\ decap[1].data = op.packet)
        /\ \A k \in DOMAIN decap : k > 1 => decap[k].data = <<>>

\* a control frame of unknown type 9 was consumed, and answered by nothing
C12_Witness ==
    /\ op.name = "net_rx"
    /\ op.packet = build_control_packet(9, 7)
    /\ decap = <<>>
    /\ sent = <<>>

\* a datagram one byte short of a control frame went to decapsulate as it came
C12_WitnessShort ==
    /\ op.name = "net_rx"
    /\ op.packet = BOND_MAGIC \o Zeros(8)
    /\ decap = <<[data |-> BOND_MAGIC \o Zeros(8), kind |-> "Done"]>>

\* C13: on receiving a PING with token n on link i, exactly one PONG with the
\* same token n is sent, on link i only, addressed to the source of the PING
\* (the link's remote after update_remote); a PONG is sent in no other event,
\* on no other link and with no other token.
C13_PongEchoesPing ==
    /\ (op.name = "net_rx" /\ IsPing(op.packet)) =>
          /\ Len(sent) = 1
          /\ sent[1].link = op.index
          /\ sent[1].dst = op.src
          /\ sent[1].dst = unwrap(links[op.index].remote)
          /\ IsPong(sent[1].data)
          /\ TokenBytes(sent[1].data) = TokenBytes(op.packet)
    /\ \A k \in DOMAIN sent :
          IsPong(sent[k].data) =>
              /\ op.name = "net_rx"
              /\ IsPing(op.packet)
              /\ sent[k].link = op.index
              /\ from_be_bytes(TokenBytes(sent[k].data))
                    = from_be_bytes(TokenBytes(op.packet))

\* a PING with a four-byte token came from B on link 1, whose remote had
\* been the configured endpoint; the PONG went to B on link 1 with that token
C13_Witness ==
    /\ op.name = "net_rx"
    /\ op.index = 1
    /\ op.src = "B"
    /\ op.packet = build_control_packet(BOND_PING, BigToken)
    /\ is_some(links[0].remote)
    /\ sent = <<[link |-> 1, dst |-> "B", ok |-> TRUE,
                 data |-> build_control_packet(BOND_PONG, BigToken)]>>

-----------------------------------------------------------------------------
(* SpecRtt: PONGs handled 0, 500 and 520 ms after the bonding epoch, with  *)
(* tokens before, at and after the time they are handled.                  *)

PongTokens == {0, 500, 520, 521}

InitRtt ==
    /\ links \in InitLinks(2, {1})
    /\ mode = "Failover"
    /\ error_backoff = 2
    /\ health_timeout = Some(1)
    /\ next_index = 0
    /\ remaining_weight = 0
    /\ now \in {0, 500, 520}
    /\ sent = <<>>
    /\ op = NoOp("idle")
    /\ window = [from_init |-> TRUE, picks |-> <<>>]
    /\ InitSupervisor

RttFrames ==
    {build_control_packet(BOND_PONG, n) : n \in PongTokens}
        \cup {build_control_packet(BOND_PING, 500)}

HandleControlPacketRtt == HandleControlPacketOf(RttFrames)

NextRtt == HandleControlPacketRtt \/ Return

SpecRtt == InitRtt /\ [][NextRtt]_vars

\* C14: on a PONG with token n on link i, e milliseconds after the bonding
\* epoch: if e >= n, last_rtt_ms of link i becomes e - n (a PING of 500 ms
\* answered at 520 ms gives 20); if e < n it stays as it was; nothing else
\* of link i and nothing of any other link changes.
C14_PongRecordsRtt ==
    [][(op'.name = "handle_control_packet" /\ IsPong(op'.packet)) =>
          LET i == op'.index
              n == from_be_bytes(TokenBytes(op'.packet))
              e == now
          IN  /\ e >= n => links'[i].last_rtt_ms = Some(e - n)
              /\ e < n => links'[i].last_rtt_ms = links[i].last_rtt_ms
              /\ (e = 520 /\ n = 500) => links'[i].last_rtt_ms = Some(20)
              /\ links'[i] = [links[i] EXCEPT !.last_rtt_ms = links'[i].last_rtt_ms]
              /\ \A j \in DOMAIN links : j # i => links'[j] = links[j]
              /\ sent' = <<>>]_vars

\* at 520 ms a PONG with token 500 replaced an earlier round-trip time by 20
C14_Witness ==
    /\ op.name = "handle_control_packet"
    /\ op.packet = build_control_packet(BOND_PONG, 500)
    /\ now = 520
    /\ links[op.index].last_rtt_ms = Some(20)
    /\ links[1 - op.index].last_rtt_ms = Some(0)

-----------------------------------------------------------------------------
(* Health pings, checked under Spec *)

\* C15: on a health tick with probing enabled, send_health_pings sends exactly
\* one PING on every link whose remote is set, available or not, and none on
\* the others; all PINGs of the tick carry the same token; last_ping_sent
\* becomes the instant of the tick on the links whose send returned Ok and
\* stays as it was on every other link.
C15_OnePingPerRemote ==
    [][(op'.name = "health_tick" /\ is_some(health_timeout)) =>
          /\ \A i \in DOMAIN links :
                Count(sent', i) = IF is_some(links[i].remote) THEN 1 ELSE 0
          /\ \A k \in DOMAIN sent' :
                /\ IsPing(sent'[k].data)
                /\ sent'[k].data = sent'[1].data
                /\ from_be_bytes(TokenBytes(sent'[k].data)) = Elapsed
          /\ \A i \in DOMAIN links :
                links'[i].last_ping_sent =
                    IF \E k \in DOMAIN sent' : sent'[k].link = i /\ sent'[k].ok
                    THEN Some(now)
                    ELSE links[i].last_ping_sent]_vars

\* both links have a remote and neither is available; each got its PING, and
\* only link 0, where the send succeeded, has the tick as last_ping_sent
C15_Witness ==
    /\ op.name = "health_tick"
    /\ is_some(health_timeout)
    /\ now = TickStep
    /\ op.avail = {}
    /\ Len(sent) = 2
    /\ sent[1].link = 0 /\ sent[1].ok
    /\ sent[2].link = 1 /\ ~sent[2].ok
    /\ links[0].last_ping_sent = Some(now)
    /\ links[1].last_ping_sent # Some(now)

-----------------------------------------------------------------------------
(* SpecQueue: the receive tasks, the channel and the loop's exit.          *)
(* Redundant mode; a receive task may end at any time.  select! picks at   *)
(* random among the branches that are ready, so a branch that is ready     *)
(* again and again is taken: strong fairness for the None branch.          *)

InitQueue == InitManager(2, {1}, {2}, {Some(1)}) /\ mode = "Redundant"

QueueSources == {"B"}
QueueResults == {<<Done>>, <<WriteToTunnel(InnerPacket)>>}
QueueOutputs == {WriteToNetwork(PktData), TunnErr}

RecvFromQueue == RecvFromOf(QueueSources, RunFrames, MaxQueue)
NetRxQueue == NetRxOf(QueueResults)
TunReadQueue == TunReadOf(QueueOutputs)

NextQueue ==
    \/ RecvFromQueue
    \/ RecvError
    \/ NetRxQueue
    \/ NetRxClosed
    \/ TunReadQueue
    \/ ReturnRun

SpecQueue ==
    /\ InitQueue
    /\ [][NextQueue]_vars
    /\ SF_vars(NetRxClosed)
    /\ WF_vars(ReturnRun)

\* every Sender is dropped and nothing is left in the channel
QueueClosed == rx_tasks = {} /\ net_rx = <<>>

\* C18: the loop exits with Ok exactly when the receive queue is closed:
\* never while a receive task is alive or a queued packet is still to be
\* taken, and, once the queue is closed, the loop does end.  The end of one
\* receive task while another is alive leaves the loop running, with the
\* TUN branch and the receive branch still served.
C18_ExitsOkWhenQueueClosed ==
    /\ [](run = Ok => QueueClosed)
    /\ [][(run = "running" /\ run' = Ok) => QueueClosed]_vars
    /\ [][rx_tasks' # rx_tasks => (run' = run /\ (rx_tasks' # {} => run' = "running"))]_vars
    /\ []((Running /\ ~QueueClosed) => ENABLED TunReadQueue)
    /\ []((Running /\ net_rx # <<>>) => ENABLED NetRxQueue)
    /\ (QueueClosed /\ run = "running") ~> (run # "running")

\* both receive tasks have ended, link 0's first; the packet that link 1 had
\* queued was still processed, and then the loop ended with Ok
C18_Witness ==
    /\ run = Ok
    /\ rx_tasks = {}
    /\ net_rx = <<>>
    /\ last_src = (0 :> None @@ 1 :> Some("B"))
    /\ links[1].remote = Some("B")

-----------------------------------------------------------------------------
(* run_until_shutdown, main.rs:90-117.  main.state is "select" while the   *)
(* select! waits, "aborting" between run_handle.abort() and the end of     *)
(* run_handle.await, "returned" afterwards; main.shutdown is the shutdown  *)
(* future ("pending" or its io::Result); main.branch is the branch taken.  *)

ExitedUnexpectedly == "Network: WireGuard task exited unexpectedly"
JoinError == "Network: WireGuard task join error"
TaskError == "the error returned by run"
IoError == "the io::Error of the shutdown future"

\* a match that passes the task's Ok(()) on
join_result_OkOnExit(r) ==
    CASE r = Ok -> Ok
      [] r = Err -> TaskError
      [] OTHER -> JoinError

\* the match on the JoinHandle's output, main.rs:98-107
join_result(r) ==
    CASE r = Ok -> ExitedUnexpectedly
      [] r = Err -> TaskError
      [] OTHER -> JoinError

taskVars == <<links, next_index, remaining_weight, now, sent, op, window, cfgVars,
              net_rx, rx_tasks, decap, tun, last_src, chanVars>>

\* the shutdown future completes (ctrl-c, or the error of waiting for it)
ShutdownSignal ==
    /\ main.state = "select"
    /\ main.shutdown = "pending"
    /\ \E shutdown_result \in {Ok, Err} :
          main' = [main EXCEPT !.shutdown = shutdown_result]
    /\ UNCHANGED <<taskVars, run>>

\* select! takes `result = &mut run_handle`, main.rs:97-108
SelectRun ==
    /\ main.state = "select"
    /\ run # "running"
    /\ main' = [main EXCEPT !.state = "returned", !.branch = "run",
                            !.result = Some(join_result(run))]
    /\ UNCHANGED <<taskVars, run>>

\* select! takes `shutdown_result = shutdown`, main.rs:109-112: `?` returns
\* the io::Error, otherwise run_handle.abort() is called
SelectShutdown ==
    /\ main.state = "select"
    /\ main.shutdown # "pending"
    /\ main' = IF main.shutdown = Err
               THEN [main EXCEPT !.state = "returned", !.branch = "shutdown",
                                 !.result = Some(IoError)]
               ELSE [main EXCEPT !.state = "aborting", !.branch = "shutdown"]
    /\ UNCHANGED <<taskVars, run>>

\* the abort takes effect: the run task is dropped at an await
TaskCancelled ==
    /\ main.state = "aborting"
    /\ run = "running"
    /\ run' = "cancelled"
    /\ UNCHANGED <<taskVars, main>>

\* a run_handle.await that does not wait for the task to end
JoinAfterAbort_NoWait ==
    /\ main.state = "aborting"
    /\ main' = [main EXCEPT !.state = "returned", !.result = Some(Ok)]
    /\ UNCHANGED <<taskVars, run>>

\* `let _ = run_handle.await; Ok(())`, main.rs:113-114
JoinAfterAbort ==
    /\ main.state = "aborting"
    /\ run # "running"
    /\ main' = [main EXCEPT !.state = "returned", !.result = Some(Ok)]
    /\ UNCHANGED <<taskVars, run>>

-----------------------------------------------------------------------------
(* SpecMain: the run task of SpecQueue's TUN branch and receive tasks      *)
(* under run_until_shutdown.  The runtime lets an abort take effect and    *)
(* wakes the waiting join: weak fairness for both.                         *)

NextMain ==
    \/ TunReadQueue
    \/ RecvError
    \/ NetRxClosed
    \/ ReturnRun
    \/ ShutdownSignal
    \/ SelectRun
    \/ SelectShutdown
    \/ TaskCancelled
    \/ JoinAfterAbort

SpecMain ==
    /\ InitQueue
    /\ [][NextMain]_vars
    /\ WF_vars(TaskCancelled)
    /\ WF_vars(JoinAfterAbort)

Returned == main.state = "returned"

C20_ShutdownAbortsRun ==
    /\ []((Returned /\ main.branch = "shutdown" /\ main.shutdown = Ok) =>
             (main.result = Some(Ok) /\ run # "running"))
    /\ [][(main.state = "select" /\ main.shutdown = Ok /\ run = "running"
             /\ main' # main) => main'.state = "aborting"]_vars
    /\ [][(Returned /\ main.result = Some(Ok)) =>
             /\ UNCHANGED <<links, next_index, remaining_weight, run, tun, decap, net_rx>>
             /\ sent' = sent \/ sent' = <<>>]_vars
    /\ (main.state = "aborting") ~> (Returned /\ main.result = Some(Ok))

\* the shutdown came while the task was running and had just sent a data
\* packet; the task was cancelled and run_until_shutdown returned Ok
C20_Witness ==
    /\ Returned
    /\ main.shutdown = Ok
    /\ main.result = Some(Ok)
    /\ run = "cancelled"
    /\ op.name = "tun_read"
    /\ sent # <<>>

-----------------------------------------------------------------------------
(* SpecCodec: build_control_packet and parse_control_packet on every type  *)
(* byte and on tokens around every byte boundary, and handle_control_packet *)
(* on frames that are no control frames: a wrong length, or 13 bytes with  *)
(* one byte of the magic changed.                                          *)

TypeBytes == 0..255

CodecTokens ==
    {0, 1, 42, 255, 256, 65535, 65536, 16777215, 16777216, BigToken, 2147483647}

\* a frame with byte k replaced
WithByte(data, k, b) == [data EXCEPT ![k] = b]

GoodFrames == {build_control_packet(BOND_PING, 1), build_control_packet(BOND_PONG, 0)}

WrongLength ==
    { <<>>, BOND_MAGIC, BOND_MAGIC \o <<BOND_PING>>,
      SubSeq(build_control_packet(BOND_PING, 1), 1, 12),
      build_control_packet(BOND_PING, 1) \o <<0>>,
      build_control_packet(BOND_PONG, 0) \o <<0>>,
      PktKeepalive, PktData }

\* tests::control_packet_rejects_bad_magic changes byte 0 to 'X'
WrongMagic ==
    {WithByte(f, k, 88) : f \in GoodFrames, k \in 1..4} \cup {Zeros(13)}

CodecFrames == GoodFrames \cup WrongLength \cup WrongMagic

InitCodec == InitManager(2, {1}, {2}, {Some(1)}) /\ mode = "Failover"

\* tests::control_packet_round_trip, for any type and token
ControlPacketRoundTrip ==
    /\ Idle
    /\ \E message_type \in TypeBytes, token \in CodecTokens :
        LET packet == build_control_packet(message_type, token)
        IN  op' = [name |-> "control_packet_round_trip",
                   message_type |-> message_type, token |-> token,
                   packet |-> packet, parsed |-> parse_control_packet(packet)]
    /\ UNCHANGED <<links, next_index, remaining_weight, now, sent, window, cfgVars, supVars>>

HandleControlPacketCodec == HandleControlPacketOf(CodecFrames)

NextCodec == ControlPacketRoundTrip \/ HandleControlPacketCodec \/ Return

SpecCodec == InitCodec /\ [][NextCodec]_vars

\* C23: parse_control_packet(build_control_packet(t, n)) = Some((t, n)) for
\* every type byte t and token n, and the frame built is 13 bytes: 'VTBD',
\* then t, then n in 8 bytes, most significant first.
C23_ControlPacketRoundTrip ==
    op.name = "control_packet_round_trip" =>
        /\ op.parsed = Some(<<op.message_type, op.token>>)
        /\ Len(op.packet) = 13
        /\ SubSeq(op.packet, 1, 4) = <<86, 84, 66, 68>>
        /\ op.packet[5] = op.message_type
        /\ \A k \in 6..13 : op.packet[k] \in 0..255
        /\ \A k \in 6..9 : op.packet[k] = 0
        /\ op.token = op.packet[10] * 16777216 + op.packet[11] * 65536
                        + op.packet[12] * 256 + op.packet[13]

\* type 255 and a token with four different significant bytes
C23_Witness ==
    /\ op.name = "control_packet_round_trip"
    /\ op.message_type = 255
    /\ op.token = BigToken
    /\ op.packet = <<86, 84, 66, 68, 255, 0, 0, 0, 0, 1, 2, 3, 4>>
    /\ op.parsed = Some(<<255, BigToken>>)

\* the frame is no control frame: not 13 bytes, or not starting with 'VTBD'
NotControlFrame(data) ==
    \/ Len(data) # 13
    \/ SubSeq(data, 1, 4) # <<86, 84, 66, 68>>

\* C24: parse_control_packet returns None for every byte string that is not
\* 13 bytes long and for every 13-byte string not starting with 'VTBD';
\* handle_control_packet then returns false, sends nothing and leaves every
\* link and the scheduler as they were.
C24_NotAControlFrame ==
    [][(op'.name = "handle_control_packet" /\ Idle /\ NotControlFrame(op'.packet)) =>
          /\ parse_control_packet(op'.packet) = None
          /\ op'.ret = FALSE
          /\ links' = links
          /\ sent' = <<>>
          /\ UNCHANGED <<next_index, remaining_weight>>]_vars

\* 13 bytes with only the last byte of the magic wrong, handed over when an
\* earlier PONG has left a round-trip time on a link
C24_Witness ==
    /\ op.name = "handle_control_packet"
    /\ op.packet = WithByte(build_control_packet(BOND_PING, 1), 4, 88)
    /\ op.ret = FALSE
    /\ \E i \in DOMAIN links : is_some(links[i].last_rtt_ms)

\* a frame one byte too long is no control frame either
C24_WitnessLong ==
    /\ op.name = "handle_control_packet"
    /\ Len(op.packet) = 14
    /\ SubSeq(op.packet, 1, 4) = BOND_MAGIC
    /\ op.ret = FALSE

-----------------------------------------------------------------------------
(* validate_config, config.rs:111-201.  A Config is modelled by the fields *)
(* validate_config reads; a key is the string of the file, "" when empty.  *)

DEFAULT_HEALTH_INTERVAL_MS == 1000

unwrap_or(o, default) == IF is_some(o) THEN unwrap(o) ELSE default

\* Ok(()) and Err(VtrunkdError::InvalidConfig(msg))
ConfigOk == [ok |-> TRUE, err |-> "", msg |-> ""]
InvalidConfig(msg) == [ok |-> FALSE, err |-> "InvalidConfig", msg |-> msg]

TimeoutNotAboveInterval ==
    "health_check_timeout_ms must be greater than health_check_interval_ms"

\* validate_config comparing with `timeout < interval`
validate_config_AcceptsEqual(config) ==
    IF config.network.mtu = 0
    THEN InvalidConfig("Network MTU cannot be 0")
    ELSE IF config.network.mtu > 65535
    THEN InvalidConfig("Network MTU exceeds u16::MAX")
    ELSE IF config.network.buffer_size = 0
    THEN InvalidConfig("Network buffer_size cannot be 0")
    ELSE IF config.network.buffer_size < config.network.mtu
    THEN InvalidConfig("Network buffer_size must be at least MTU size")
    ELSE IF config.wireguard.private_key = ""
    THEN InvalidConfig("WireGuard private_key is required")
    ELSE IF config.wireguard.peer_public_key = ""
    THEN InvalidConfig("WireGuard peer_public_key is required")
    ELSE IF config.wireguard.links = <<>>
    THEN InvalidConfig("WireGuard links cannot be empty")
    ELSE IF config.wireguard.error_backoff_secs = Some(0)
    THEN InvalidConfig("error_backoff_secs must be greater than 0")
    ELSE IF config.wireguard.health_check_interval_ms = Some(0)
    THEN InvalidConfig("health_check_interval_ms must be greater than 0")
    ELSE IF config.wireguard.health_check_timeout_ms = Some(0)
    THEN InvalidConfig("health_check_timeout_ms must be greater than 0")
    ELSE IF /\ is_some(config.wireguard.health_check_timeout_ms)
            /\ unwrap(config.wireguard.health_check_timeout_ms)
                 <  unwrap_or(config.wireguard.health_check_interval_ms,
                                DEFAULT_HEALTH_INTERVAL_MS)
    THEN InvalidConfig(TimeoutNotAboveInterval)
    ELSE IF \E k \in DOMAIN config.wireguard.links :
                config.wireguard.links[k].weight = Some(0)
    THEN InvalidConfig("WireGuard link weight must be greater than 0")
    ELSE ConfigOk

validate_config(config) ==
    IF config.network.mtu = 0
    THEN InvalidConfig("Network MTU cannot be 0")
    ELSE IF config.network.mtu > 65535
    THEN InvalidConfig("Network MTU exceeds u16::MAX")
    ELSE IF config.network.buffer_size = 0
    THEN InvalidConfig("Network buffer_size cannot be 0")
    ELSE IF config.network.buffer_size < config.network.mtu
    THEN InvalidConfig("Network buffer_size must be at least MTU size")
    ELSE IF config.wireguard.private_key = ""
    THEN InvalidConfig("WireGuard private_key is required")
    ELSE IF config.wireguard.peer_public_key = ""
    THEN InvalidConfig("WireGuard peer_public_key is required")
    ELSE IF config.wireguard.links = <<>>
    THEN InvalidConfig("WireGuard links cannot be empty")
    ELSE IF config.wireguard.error_backoff_secs = Some(0)
    THEN InvalidConfig("error_backoff_secs must be greater than 0")
    ELSE IF config.wireguard.health_check_interval_ms = Some(0)
    THEN InvalidConfig("health_check_interval_ms must be greater than 0")
    ELSE IF config.wireguard.health_check_timeout_ms = Some(0)
    THEN InvalidConfig("health_check_timeout_ms must be greater than 0")
    ELSE IF /\ is_some(config.wireguard.health_check_timeout_ms)
            /\ unwrap(config.wireguard.health_check_timeout_ms)
                 <= unwrap_or(config.wireguard.health_check_interval_ms,
                                DEFAULT_HEALTH_INTERVAL_MS)
    THEN InvalidConfig(TimeoutNotAboveInterval)
    ELSE IF \E k \in DOMAIN config.wireguard.links :
                config.wireguard.links[k].weight = Some(0)
    THEN InvalidConfig("WireGuard link weight must be greater than 0")
    ELSE ConfigOk

-----------------------------------------------------------------------------
(* SpecConfig: validate_config on configurations that fail each of its     *)
(* tests or none, with interval and timeout on both sides of each other    *)
(* and of the default interval.                                            *)

ConfigMillis == {None, Some(0), Some(1), Some(999), Some(1000), Some(1001), Some(5000)}

ConfigLinks ==
    { <<>>, <<[weight |-> None]>>, <<[weight |-> Some(0)]>>,
      <<[weight |-> Some(1)], [weight |-> Some(2)]>> }

Configs ==
    [network : [mtu : {0, 1420, 65536}, buffer_size : {0, 1000, 65536}],
     wireguard : [private_key : {"", "key"},
                  peer_public_key : {"", "peer"},
                  error_backoff_secs : {None, Some(0), Some(5)},
                  health_check_interval_ms : ConfigMillis,
                  health_check_timeout_ms : ConfigMillis,
                  links : ConfigLinks]]

\* load_config, config.rs:100: the configuration read is validated
ValidateConfig ==
    /\ Idle
    /\ \E config \in Configs :
          op' = [name |-> "validate_config", config |-> config,
                 ret |-> validate_config(config)]
    /\ UNCHANGED <<links, next_index, remaining_weight, now, sent, window, cfgVars, supVars>>

NextConfig == ValidateConfig \/ Return

SpecConfig == InitCodec /\ [][NextConfig]_vars

\* the interval the health timer runs with: the configured one or the default
HealthInterval(config) ==
    IF config.wireguard.health_check_interval_ms = None THEN 1000
    ELSE unwrap(config.wireguard.health_check_interval_ms)

\* C25: validate_config rejects with InvalidConfig every configuration whose
\* health_check_timeout_ms is at most the health check interval (the one
\* configured, or 1000 ms when none is), with the message of this test when
\* no earlier test rejects; it does not reject with that message when the
\* timeout is greater than the interval or absent.
C25_TimeoutAboveInterval ==
    op.name = "validate_config" =>
        LET timeout == op.config.wireguard.health_check_timeout_ms
            interval == HealthInterval(op.config)
            valid_before == [op.config EXCEPT
                               !.wireguard.health_check_timeout_ms = None]
        IN  /\ (timeout # None /\ timeout[1] <= interval) =>
                  /\ ~op.ret.ok
                  /\ op.ret.err = "InvalidConfig"
                  /\ (validate_config(valid_before).ok /\ timeout[1] > 0) =>
                        op.ret.msg = TimeoutNotAboveInterval
            /\ (timeout = None \/ timeout[1] > interval) =>
                  op.ret.msg # TimeoutNotAboveInterval
            /\ (timeout # None /\ timeout[1] > interval
                  /\ validate_config(valid_before).ok) => op.ret.ok

\* no interval configured and a timeout equal to the default interval
C25_Witness ==
    /\ op.name = "validate_config"
    /\ op.config.wireguard.health_check_interval_ms = None
    /\ op.config.wireguard.health_check_timeout_ms = Some(1000)
    /\ op.ret = [ok |-> FALSE, err |-> "InvalidConfig", msg |-> TimeoutNotAboveInterval]

\* a timeout one millisecond above the configured interval is accepted
C25_WitnessAccepted ==
    /\ op.name = "validate_config"
    /\ op.config.wireguard.health_check_interval_ms = Some(1000)
    /\ op.config.wireguard.health_check_timeout_ms = Some(1001)
    /\ op.ret.ok

-----------------------------------------------------------------------------
(* Recovery, checked under SpecBackoff *)

\* C26: a link's down_since is None right after record_rx or record_send_ok,
\* whatever it was before: after update_remote on the link, and after every
\* call whose last send_to on the link (data, broadcast, PING or PONG)
\* returned Ok, also when an earlier send of the same call had failed on it.
C26_RecoveryClearsDownSince ==
    /\ op.name = "update_remote" => links[op.index].down_since = None
    /\ \A i \in Links(sent) : ~LastSendFailed(i) => links[i].down_since = None
    /\ \A i \in DOMAIN links :
          /\ record_rx(links[i], now).down_since = None
          /\ record_send_ok(links[i]).down_since = None

\* Failover: the send on the best link failed and marked it down, the retry
\* of send_any on the same link succeeded and the link is up again
C26_Witness ==
    /\ op.name = "send_packet"
    /\ mode = "Failover"
    /\ Len(sent) = 2
    /\ sent[1].link = sent[2].link
    /\ ~sent[1].ok
    /\ sent[2].ok
    /\ links[sent[2].link].down_since = None

\* update_remote on a link that an earlier failure had left down
C26_WitnessRx ==
    /\ op.name = "update_remote"
    /\ links[op.index].down_since = None
    /\ links[op.index].last_rx = Some(now)
    /\ \E j \in DOMAIN links : is_some(links[j].down_since)

-----------------------------------------------------------------------------
(* SpecQuota: Aggregate mode over two links of weight 1 or 4, with every   *)
(* call of the LinkManager and any outcome of every send.  The op record   *)
(* of a send_packet call keeps the cursor and the quota the call started   *)
(* with.                                                                   *)

QuotaWeights == {1, 4}
QuotaPackets == {PktData, PktInit}

InitQuota ==
    /\ InitManager(2, QuotaWeights, {2}, {None, Some(1)})
    /\ mode = "Aggregate"

SendPacketQuota ==
    /\ Idle
    /\ \E packet \in QuotaPackets :
       \E oks \in Outcomes(MaxSendCalls(packet)) :
       \E r \in {send_packet(Self, packet, now, oks)} :
            /\ links' = r.links
            /\ next_index' = r.next_index
            /\ remaining_weight' = r.remaining_weight
            /\ sent' = r.sent
            /\ op' = [name |-> "send_packet", packet |-> packet,
                      avail |-> AvailSet(links, now),
                      cursor |-> next_index, quota |-> remaining_weight]
            /\ UNCHANGED <<now, window, cfgVars, supVars>>

NextQuota ==
    Tick \/ SendPacketQuota \/ UpdateRemote \/ HealthTick \/ HandleControlPacket \/ Return

SpecQuota == InitQuota /\ [][NextQuota]_vars

\* C28: in every reachable state of the LinkManager, whatever the calls, the
\* outcomes of the sends and the links going down and coming back,
\* remaining_weight lies between 0 and the weight of the link at next_index.
C28_QuotaWithinWeight ==
    /\ next_index \in DOMAIN links
    /\ 0 <= remaining_weight
    /\ remaining_weight <= links[next_index].weight

\* the call found the cursor on a link of weight 4 with three sends of its
\* quota left and the link not available, and sent on the other link, of
\* weight 1
C28_Witness ==
    /\ op.name = "send_packet"
    /\ op.packet \in DataPackets
    /\ op.quota = 3
    /\ links[op.cursor].weight = 4
    /\ op.cursor \notin op.avail
    /\ Len(sent) = 1
    /\ sent[1].ok
    /\ sent[1].link # op.cursor
    /\ links[sent[1].link].weight = 1
    /\ remaining_weight = 0

\* the scheduler state after link i was chosen with a quota of q sends left
Chosen(ni, rw, i, q) ==
    /\ rw = q - 1
    /\ ni = IF q - 1 = 0 THEN (i + 1) % Cardinality(DOMAIN links) ELSE i

\* the first link from the cursor on, in cursor order, that is in `avail`
FirstFrom(cursor, avail) ==
    LET len == Cardinality(DOMAIN links)
        k == CHOOSE d \in 0..(len - 1) :
                 /\ (cursor + d) % len \in avail
                 /\ \A e \in 0..(d - 1) : (cursor + e) % len \notin avail
    IN  (cursor + k) % len

\* C29: whenever the round-robin cursor moves to another link, because a quota
\* was used up or because a link that is not available was passed over (also
\* in the middle of its quota), the link chosen next starts with a quota equal
\* to its own weight; only the link the cursor already stands on continues
\* with what is left of its quota.
C29_QuotaResetOnMove ==
    [][(/\ op'.name = "send_packet"
        /\ op'.packet \in DataPackets
        /\ op'.avail # {}) =>
          LET i == FirstFrom(next_index, op'.avail)
              q == IF i = next_index /\ remaining_weight > 0
                   THEN remaining_weight ELSE links[i].weight
              j == sent'[2].link
          IN  /\ sent'[1].link = i
              /\ sent'[1].ok => Chosen(next_index', remaining_weight', i, q)
              /\ (/\ ~sent'[1].ok
                  /\ Len(sent') >= 2
                  /\ sent'[2].ok
                  /\ op'.avail = DOMAIN links) =>
                    /\ j # i
                    /\ Chosen(next_index', remaining_weight', j, links[j].weight)]_vars

\* the cursor stood on a link in the middle of its quota that was no longer
\* available; the other link, of weight 4, was chosen and has three sends left
C29_Witness ==
    /\ op.name = "send_packet"
    /\ op.packet \in DataPackets
    /\ op.quota > 0
    /\ op.cursor \notin op.avail
    /\ Len(sent) = 1
    /\ sent[1].ok
    /\ sent[1].link # op.cursor
    /\ links[sent[1].link].weight = 4
    /\ next_index = sent[1].link
    /\ remaining_weight = 3

\* the send on the link at the cursor failed in the middle of its quota; the
\* second attempt went to the other link with that link's full quota
C29_WitnessFailed ==
    /\ op.name = "send_packet"
    /\ op.packet \in DataPackets
    /\ op.quota > 1
    /\ op.avail = DOMAIN links
    /\ Len(sent) = 2
    /\ ~sent[1].ok
    /\ sent[1].link = op.cursor
    /\ sent[2].ok
    /\ links[sent[2].link].weight = 4
    /\ remaining_weight = 3

\* C30: in Aggregate mode a link's credit is consumed only by a send that
\* succeeds: after a send_packet call with a data packet in which every send
\* failed, remaining_weight is what it was before the call, or 0, or the full
\* weight of the link at the cursor.
C30_CreditOnlyOnSuccess ==
    [][(/\ op'.name = "send_packet"
        /\ op'.packet \in DataPackets
        /\ \A k \in DOMAIN sent' : ~sent'[k].ok) =>
          \/ next_index' = next_index /\ remaining_weight' = remaining_weight
          \/ remaining_weight' = 0
          \/ remaining_weight' = links[next_index'].weight]_vars

\* next_weighted_index takes nothing from a link it passes over: a call in
\* which no link is available leaves the cursor where it was, with no quota
C30_SkippedLinksKeepCredit ==
    [][(/\ op'.name = "send_packet"
        /\ op'.packet \in DataPackets
        /\ op'.avail = {}) =>
          /\ next_index' = next_index
          /\ remaining_weight' = 0]_vars

-----------------------------------------------------------------------------
(* SpecChan: the receive tasks of setup_links step by step, wireguard.rs   *)
(* 284-308.  A task is in recv_from (rx_held is None) or in tx.send with   *)
(* the NetPacket it has built (rx_held); its steps interleave with those   *)
(* of the other task and with the events of the loop.  The k-th datagram   *)
(* that arrives on link i's socket is Datagram(i, k).  ChanCapacity stands *)
(* for the 1024 of mpsc::channel(1024), MaxRead bounds the datagrams that  *)
(* arrive on one socket.                                                   *)

ChanCapacity == 2
MaxRead == 3

\* a transport data message whose receiver index names the link and whose
\* counter is k
Datagram(i, k) == WithByte(WithByte(NoisePacket(4, 33), 5, i + 1), 9, k)

InitChan == InitManager(2, {1}, {2}, {Some(1)}) /\ mode = "Failover"

\* recv_from returns Ok((size, src)): the task builds the NetPacket
RecvFromSocket ==
    /\ \E index \in rx_tasks, src \in QueueSources :
          /\ rx_held[index] = None
          /\ rx_read[index] < MaxRead
          /\ rx_read' = [rx_read EXCEPT ![index] = @ + 1]
          /\ rx_held' = [rx_held EXCEPT
                           ![index] = Some(NetPacket(index, src,
                                                     Datagram(index, rx_read[index] + 1)))]
    /\ UNCHANGED <<links, next_index, remaining_weight, now, sent, op, window, cfgVars,
                   net_rx, rx_tasks, run, decap, tun, last_src, main>>

\* a tx.send that puts the packet in front of the queued ones
TxSend_InFront ==
    /\ run = "running"
    /\ Len(net_rx) < ChanCapacity
    /\ \E index \in rx_tasks :
          /\ is_some(rx_held[index])
          /\ net_rx' = <<unwrap(rx_held[index])>> \o net_rx
          /\ rx_held' = [rx_held EXCEPT ![index] = None]
    /\ UNCHANGED <<links, next_index, remaining_weight, now, sent, op, window, cfgVars,
                   rx_tasks, run, decap, tun, last_src, main, rx_read>>

\* a tx.send into a channel without a bound
TxSend_Unbounded ==
    /\ run = "running"
    /\ \E index \in rx_tasks :
          /\ is_some(rx_held[index])
          /\ net_rx' = Append(net_rx, unwrap(rx_held[index]))
          /\ rx_held' = [rx_held EXCEPT ![index] = None]
    /\ UNCHANGED <<links, next_index, remaining_weight, now, sent, op, window, cfgVars,
                   rx_tasks, run, decap, tun, last_src, main, rx_read>>

\* tx.send(..).await completes with Ok: the channel has room and the
\* packet goes to its end; while the channel is full the task waits here
TxSend ==
    /\ run = "running"
    /\ Len(net_rx) < ChanCapacity
    /\ \E index \in rx_tasks :
          /\ is_some(rx_held[index])
          /\ net_rx' = Append(net_rx, unwrap(rx_held[index]))
          /\ rx_held' = [rx_held EXCEPT ![index] = None]
    /\ UNCHANGED <<links, next_index, remaining_weight, now, sent, op, window, cfgVars,
                   rx_tasks, run, decap, tun, last_src, main, rx_read>>

\* tx.send(..).await completes with Err: run has returned and dropped the
\* Receiver; the task breaks out of its loop
TxSendErr ==
    /\ run # "running"
    /\ \E index \in rx_tasks :
          /\ is_some(rx_held[index])
          /\ rx_tasks' = rx_tasks \ {index}
          /\ rx_held' = [rx_held EXCEPT ![index] = None]
    /\ UNCHANGED <<links, next_index, remaining_weight, now, sent, op, window, cfgVars,
                   net_rx, run, decap, tun, last_src, main, rx_read>>

NetRxChan == NetRxOf(QueueResults)

NextChan ==
    \/ RecvFromSocket
    \/ TxSend
    \/ TxSendErr
    \/ RecvError
    \/ NetRxChan
    \/ NetRxClosed
    \/ ReturnRun

SpecChan == InitChan /\ [][NextChan]_vars

\* the NetPackets of link i that are on their way to the loop: those in the
\* channel, in channel order, then the one its task holds
InFlight(i) ==
    LET OfLink(p) == p.link_index = i
    IN  SelectSeq(net_rx, OfLink) \o (IF is_some(rx_held[i]) THEN rx_held[i] ELSE <<>>)

\* how many of link i's datagrams the loop has taken from the channel
Taken(i) == rx_read[i] - Len(InFlight(i))

\* C21: for every link, under every interleaving of the receive tasks with
\* each other and with the loop, the datagrams read from its socket reach the
\* loop in the order they were read, each once: the packets of link i on
\* their way are the datagrams Taken(i)+1 .. rx_read[i] in that order, each
\* carrying link_index i, and the loop takes the head of the channel, which
\* is datagram Taken(i)+1 of its link, and removes it.  (Once run has
\* returned the Receiver is gone and nothing more is delivered.)
C21_PerLinkFifo ==
    /\ [](run = "running" =>
            \A i \in DOMAIN links :
               /\ Taken(i) >= 0
               /\ \A n \in DOMAIN InFlight(i) :
                     /\ InFlight(i)[n].link_index = i
                     /\ InFlight(i)[n].data = Datagram(i, Taken(i) + n))
    /\ [](\A n \in DOMAIN net_rx : net_rx[n].link_index \in DOMAIN links)
    /\ [][(op.name = "idle" /\ op'.name = "net_rx") =>
            /\ op'.index = Head(net_rx).link_index
            /\ op'.packet = Datagram(op'.index, Taken(op'.index) + 1)
            /\ net_rx' = Tail(net_rx)
            /\ rx_held' = rx_held
            /\ rx_read' = rx_read]_vars

\* the loop has just taken the second datagram of link 1 from a full channel;
\* link 1's third is next, and link 0's task still holds its first datagram
C21_Witness ==
    /\ op.name = "net_rx"
    /\ op.index = 1
    /\ op.packet = Datagram(1, 2)
    /\ net_rx = <<NetPacket(1, "B", Datagram(1, 3))>>
    /\ rx_held[0] = Some(NetPacket(0, "B", Datagram(0, 1)))

\* packets of both links in the channel, link 0's second behind link 1's first
C21_WitnessInterleaved ==
    /\ Len(net_rx) = 2
    /\ net_rx[1] = NetPacket(1, "B", Datagram(1, 1))
    /\ net_rx[2] = NetPacket(0, "B", Datagram(0, 2))
    /\ rx_held[0] = Some(NetPacket(0, "B", Datagram(0, 3)))

\* C22: the channel never holds more than its capacity (1024; ChanCapacity
\* here).  While it is full, a task that holds a packet stays in its send
\* with that packet and reads nothing more; while run is running the packet
\* leaves the task only by being put, unchanged, at the end of the channel,
\* and as soon as the loop has taken a packet the send can complete.
C22_BoundedBlockOnFull ==
    /\ [](Len(net_rx) <= ChanCapacity)
    /\ [][\A i \in DOMAIN links :
            (is_some(rx_held[i]) /\ run = "running") =>
               \/ rx_held'[i] = rx_held[i] /\ rx_read'[i] = rx_read[i]
               \/ /\ Len(net_rx) < ChanCapacity
                  /\ net_rx' = Append(net_rx, unwrap(rx_held[i]))
                  /\ rx_held'[i] = None
                  /\ rx_read'[i] = rx_read[i]]_vars
    /\ [][\A i \in DOMAIN links :
            (is_some(rx_held[i]) /\ Len(net_rx) = ChanCapacity) =>
               \/ rx_held'[i] = rx_held[i] /\ rx_read'[i] = rx_read[i] /\ i \in rx_tasks'
               \/ run # "running"]_vars
    /\ []((run = "running" /\ Len(net_rx) < ChanCapacity
           /\ \E i \in rx_tasks : is_some(rx_held[i])) => ENABLED TxSend)

\* the channel is full, both tasks wait in their send, and the loop is at
\* its select
C22_Witness ==
    /\ Running
    /\ Len(net_rx) = ChanCapacity
    /\ \A i \in DOMAIN links : i \in rx_tasks /\ is_some(rx_held[i])

\* the packet a task held while the channel was full is now the last one in
\* the channel
C22_WitnessUnblocked ==
    /\ op.name = "net_rx"
    /\ Len(net_rx) = ChanCapacity
    /\ net_rx[ChanCapacity] = NetPacket(0, "B", Datagram(0, 3))
    /\ net_rx[1].link_index = 0
    /\ rx_held[0] = None

-----------------------------------------------------------------------------
(* Retries of one send_packet call, checked under SpecQuota and Spec *)

\* the links of S in cyclic order from `cursor`, from the d-th step on
RECURSIVE OrderFrom(_, _, _)
OrderFrom(cursor, S, d) ==
    LET len == Cardinality(DOMAIN links)
        i == (cursor + d) % len
    IN  IF d >= len THEN <<>>
        ELSE (IF i \in S THEN <<i>> ELSE <<>>) \o OrderFrom(cursor, S, d + 1)

\* the send_to calls `tx` follow `plan`: attempt after attempt on the links of
\* the plan, every attempt but the last one failing, and stopping before the
\* end of the plan only after a send that succeeded
FollowsPlan(tx, plan) ==
    /\ Len(tx) <= Len(plan)
    /\ \A n \in DOMAIN tx :
          /\ tx[n].link = plan[n]
          /\ n < Len(tx) => ~tx[n].ok
    /\ Len(tx) < Len(plan) => tx[Len(tx)].ok

\* what send_round_robin tries for one data packet: the links that were
\* available at the call, in cursor order, then every link with a remote, in
\* index order
RoundRobinPlan ==
    OrderFrom(op.cursor, op.avail, 0) \o OrderFrom(0, HasRemote(links), 0)

C32_FallbackToOtherAvailable ==
    (/\ op.name = "send_packet"
     /\ mode = "Failover"
     /\ op.packet \in DataPackets
     /\ op.avail # {}
     /\ Len(sent) >= 2) =>
        LET others == op.avail \ {sent[1].link}
        IN  others # {} => sent[2].link \in others

-----------------------------------------------------------------------------
(* SpecDown: the operations of Link that write down_since, on one link in  *)
(* any state a Link can be in.  The op record keeps the down_since the     *)
(* operation found.                                                        *)

LinkOp(name, index, ret) ==
    [name |-> name, index |-> index, ret |-> ret, before |-> links[index].down_since]

IsAvailableDown ==
    /\ Idle
    /\ \E index \in DOMAIN links :
       \E r \in {is_available(links[index], now, error_backoff, health_timeout)} :
            /\ links' = [links EXCEPT ![index] = r.self]
            /\ op' = LinkOp("is_available", index, r.ret)
            /\ UNCHANGED <<next_index, remaining_weight, sent, now, window, cfgVars, supVars>>

RecordSendError ==
    /\ Idle
    /\ \E index \in DOMAIN links :
            /\ links' = [links EXCEPT ![index] = record_send_error(@, now)]
            /\ op' = LinkOp("record_send_error", index, FALSE)
            /\ UNCHANGED <<next_index, remaining_weight, sent, now, window, cfgVars, supVars>>

RecordSendOk ==
    /\ Idle
    /\ \E index \in DOMAIN links :
            /\ links' = [links EXCEPT ![index] = record_send_ok(@)]
            /\ op' = LinkOp("record_send_ok", index, TRUE)
            /\ UNCHANGED <<next_index, remaining_weight, sent, now, window, cfgVars, supVars>>

RecordRx ==
    /\ Idle
    /\ \E index \in DOMAIN links :
            /\ links' = [links EXCEPT ![index] = record_rx(@, now)]
            /\ op' = LinkOp("record_rx", index, TRUE)
            /\ UNCHANGED <<next_index, remaining_weight, sent, now, window, cfgVars, supVars>>

NextDown ==
    IsAvailableDown \/ RecordSendError \/ RecordSendOk \/ RecordRx \/ TickLink \/ Return

SpecDown == InitLink /\ [][NextDown]_vars

\* is_available's health verdict on link L at instant t is "down"
Verdict(L, t) ==
    /\ is_some(health_timeout)
    /\ is_some(L.remote)
    /\ NoRx(L, t) \/ NoPong(L, t)

\* C33: down_since holds the instant of the latest failure: record_send_error
\* and a health-timeout verdict of is_available set it to the current instant
\* whether or not it was already set, an is_available call without a verdict
\* leaves it as it was, and record_rx and record_send_ok clear it.
C33_DownSinceIsLatestFailure ==
    /\ op.name = "record_send_error" => links[op.index].down_since = Some(now)
    /\ op.name = "is_available" =>
          links[op.index].down_since =
              IF Verdict(links[op.index], now) THEN Some(now) ELSE op.before
    /\ op.name \in {"record_rx", "record_send_ok"} => links[op.index].down_since = None

\* a send error on a link that was already down since an earlier instant
C33_Witness ==
    /\ op.name = "record_send_error"
    /\ is_some(op.before)
    /\ unwrap(op.before) < now
    /\ links[op.index].down_since = Some(now)

\* a health-timeout verdict on a link that was already down since an earlier
\* instant
C33_WitnessVerdict ==
    /\ op.name = "is_available"
    /\ ~op.ret
    /\ is_some(op.before)
    /\ unwrap(op.before) < now
    /\ links[op.index].down_since = Some(now)

\* the claim as stated: once set, down_since is left as it is by a further
\* failure
C33_Original ==
    (op.name \in {"record_send_error", "is_available"} /\ is_some(op.before)) =>
        links[op.index].down_since = op.before

-----------------------------------------------------------------------------
(* Broadcasts, checked under Spec *)

\* C34: under every bonding mode, a send_packet call with a handshake packet
\* (type 1, 2 or 3) or a keepalive (type 4, 32 bytes) makes one send_to on
\* every link that has a remote, in ascending link-index order, and leaves
\* next_index and remaining_weight as they were.
C34_BroadcastInIndexOrder ==
    [][(op'.name = "send_packet" /\ op'.packet \in BroadcastPackets) =>
          /\ Len(sent') = Cardinality(HasRemote(links))
          /\ \A k \in DOMAIN sent' :
                /\ sent'[k].link \in HasRemote(links)
                /\ sent'[k].data = op'.packet
                /\ \A j \in DOMAIN sent' : j < k => sent'[j].link < sent'[k].link
          /\ next_index' = next_index
          /\ remaining_weight' = remaining_weight]_vars

\* Aggregate mode, the cursor in the middle of link 0's quota: a keepalive
\* went out on link 0 and then on link 1, and the quota is still there
C34_Witness ==
    /\ op.name = "send_packet"
    /\ op.packet = PktKeepalive
    /\ mode = "Aggregate"
    /\ Len(sent) = 2
    /\ sent[1].link = 0
    /\ sent[2].link = 1
    /\ next_index = 0
    /\ remaining_weight = 1

\* a handshake response in Failover mode, the send on link 0 failing
C34_WitnessHandshake ==
    /\ op.name = "send_packet"
    /\ op.packet = PktResponse
    /\ mode = "Failover"
    /\ Len(sent) = 2
    /\ sent[1].link = 0
    /\ ~sent[1].ok
    /\ sent[2].link = 1

-----------------------------------------------------------------------------
(* Probing disabled, checked under Spec *)

\* C35: when health_check_timeout is absent no PING is ever sent, a health
\* tick sends nothing and changes no link, and no link is marked down or
\* reported unavailable for the age of last_rx or last_ping_sent: down_since
\* is set only by a send that failed on the link, and a link with a remote is
\* unavailable only inside the backoff that follows.
C35_NoProbingWithoutTimeout ==
    /\ [](is_none(health_timeout) =>
            /\ op.name = "health_tick" => sent = <<>>
            /\ \A k \in DOMAIN sent : ~IsPing(sent[k].data)
            /\ \A i \in DOMAIN links : links[i].last_ping_sent = None
            /\ \A i \in HasRemote(links) :
                  ~Available(links, i, now) =>
                      /\ is_some(links[i].down_since)
                      /\ now - unwrap(links[i].down_since) < error_backoff)
    /\ [][is_none(health_timeout) =>
            /\ op'.name = "health_tick" => links' = links
            /\ \A i \in DOMAIN links :
                  (/\ links'[i].down_since # links[i].down_since
                   /\ is_some(links'[i].down_since)) =>
                      /\ \E k \in DOMAIN sent' : sent'[k].link = i /\ ~sent'[k].ok
                      /\ links'[i].down_since = Some(now)]_vars

\* no timeout configured: a health tick at instant 2 sent nothing, and link 0,
\* which received last at instant 0 and never since, is available
C35_Witness ==
    /\ is_none(health_timeout)
    /\ op.name = "health_tick"
    /\ sent = <<>>
    /\ now = TickStep
    /\ links[0].last_rx = Some(0)
    /\ links[0].down_since = None
    /\ 0 \in op.avail

-----------------------------------------------------------------------------
(* Fatal errors of the loop, checked under SpecRun *)

\* C36: an Err from encapsulate or from update_timers, or an error of the TUN
\* read, ends run with an error, nothing being sent for that event; once run
\* has ended no event is processed: the LinkManager, the receive queue and
\* the result of run stay as they are.
C36_NoiseAndTunErrorsAreFatal ==
    /\ []((op.name \in {"tun_read", "wg_timer"} /\ op.src = "Err") =>
              /\ run = Err
              /\ ~op.ret
              /\ sent = <<>>)
    /\ [][run # "running" =>
              /\ run' = run
              /\ links' = links
              /\ next_index' = next_index
              /\ remaining_weight' = remaining_weight
              /\ net_rx' = net_rx
              /\ sent' = sent \/ sent' = <<>>
              /\ op' = op \/ op' = NoOp("idle")]_vars

\* update_timers returned Err: run has ended with an error while a datagram
\* is still in the receive queue
C36_Witness ==
    /\ op.name = "wg_timer"
    /\ op.src = "Err"
    /\ run = Err
    /\ net_rx # <<>>

\* the TUN read (or encapsulate) failed and the loop has been left: nothing
\* can follow
C36_WitnessTun ==
    /\ op.name = "tun_read"
    /\ op.src = "Err"
    /\ run = Err
    /\ ~ENABLED NetRx
    /\ ~ENABLED TunRead
    /\ ~ENABLED WgTimer
    /\ ~ENABLED HealthTimerRun

-----------------------------------------------------------------------------
(* One packet, one transmission, checked under Spec *)

Succeeded(tx) == {k \in DOMAIN tx : tx[k].ok}

\* C37: in Aggregate and Failover mode one send_packet call with a data or
\* unknown-type packet has at most one send_to that succeeds, and that one is
\* the last send_to of the call, also when the call went on to send_any: the
\* packet is never sent successfully on two links.
C37_AtMostOneSuccess ==
    (/\ op.name = "send_packet"
     /\ op.packet \in DataPackets
     /\ mode \in {"Aggregate", "Failover"}) =>
        /\ Cardinality(Succeeded(sent)) <= 1
        /\ \A k \in Succeeded(sent) : k = Len(sent)

\* Failover: the best link failed, send_any failed on link 0 and succeeded on
\* link 1, where the call stopped
C37_Witness ==
    /\ op.name = "send_packet"
    /\ op.packet = PktData
    /\ mode = "Failover"
    /\ Len(sent) = 3
    /\ sent[2].link = 0
    /\ sent[3].link = 1
    /\ Succeeded(sent) = {3}

\* Aggregate: the round robin succeeded on the first link it chose and the
\* other link, although available, was not sent on
C37_WitnessAggregate ==
    /\ op.name = "send_packet"
    /\ op.packet = PktUnknown
    /\ mode = "Aggregate"
    /\ op.avail = DOMAIN links
    /\ Len(sent) = 1
    /\ sent[1].ok

-----------------------------------------------------------------------------
(* A link that has stopped receiving, checked under SpecDown *)

\* probing is on and the last packet received on L is older than the timeout
Stale(L, t) == is_some(health_timeout) /\ NoRx(L, t)

\* C38: with probing enabled, while now - last_rx > timeout holds for a link,
\* every is_available call on it returns false, whatever down_since is (unset,
\* just cleared by a send that succeeded, or older than the backoff); time
\* passing, sends and probes do not end this, only record_rx does.
C38_StaleUntilRx ==
    /\ []((op.name = "is_available" /\ Stale(links[op.index], now)) => ~op.ret)
    /\ [][\A i \in DOMAIN links :
            (Stale(links[i], now) /\ ~Stale(links'[i], now')) =>
                op'.name = "record_rx" /\ op'.index = i]_vars

\* is_available returned false for a link with a remote that found down_since
\* unset, as a send that succeeded leaves it
C38_Witness ==
    /\ op.name = "is_available"
    /\ ~op.ret
    /\ Stale(links[op.index], now)
    /\ is_some(links[op.index].remote)
    /\ op.before = None

\* record_rx on a link that had been silent for longer than the timeout and
\* down for longer than the backoff
C38_WitnessRx ==
    /\ op.name = "record_rx"
    /\ health_timeout = Some(1)
    /\ now = MaxInstant
    /\ op.before = Some(0)
    /\ links[op.index].last_rx = Some(now)
    /\ is_available(links[op.index], now, error_backoff, health_timeout).ret

-----------------------------------------------------------------------------
(* The source of a datagram is learned first, checked under SpecRx *)

\* decapsulate returned Err for the datagram of the last event
Rejected == decap # <<>> /\ decap[Len(decap)].kind = "Err"

\* C39: every datagram taken from the receive queue has update_remote applied
\* before it is classified: whatever the datagram is (rejected by decapsulate,
\* a control frame with an unknown type byte, ...), after the event its
\* link has remote = its source and last_rx = now, the sends of the event on
\* that link went to that source, and down_since is unset unless one of
\* those sends failed; the other link is not changed by update_remote.
C39_SourceLearnedFirst ==
    /\ [](op.name = "net_rx" =>
            LET L == links[op.index]
            IN  /\ L.remote = Some(op.src)
                /\ L.last_rx = Some(now)
                /\ \A k \in DOMAIN sent : sent[k].link = op.index => sent[k].dst = op.src
                /\ ~LastSendFailed(op.index) => L.down_since = None
                /\ (Rejected \/ (IsControlFrame(op.packet) /\ ~IsPing(op.packet))) =>
                      sent = <<>> /\ L.down_since = None)
    /\ [][(op.name = "idle" /\ op'.name = "net_rx") =>
            /\ op'.index = Head(net_rx).link_index
            /\ op'.src = Head(net_rx).src
            /\ \A j \in DOMAIN links \ {op'.index} :
                  /\ links'[j].remote = links[j].remote
                  /\ links'[j].last_rx = links[j].last_rx]_vars

\* a control frame with type byte 9 arrived from B on link 1, whose endpoint
\* was A: nothing was answered, and the link now points to B
C39_Witness ==
    /\ op.name = "net_rx"
    /\ op.packet = build_control_packet(9, 7)
    /\ op.index = 1
    /\ op.src = "B"
    /\ links[1].remote = Some("B")
    /\ links[1].last_rx = Some(now)
    /\ links[1].down_since = None
    /\ links[0].remote = Some(ConfiguredEndpoint)

\* a data packet from B that decapsulate rejected
C39_WitnessRejected ==
    /\ op.name = "net_rx"
    /\ op.packet = PktData
    /\ Rejected
    /\ op.src = "B"
    /\ links[op.index].remote = Some("B")
    /\ links[op.index].down_since = None

-----------------------------------------------------------------------------
(* SpecTun: the receive branch with a Tunn that would have more to say     *)
(* after the packet for the TUN device: every answer of decapsulate is     *)
(* followed by further ones, which are used only if decapsulate is called  *)
(* again.                                                                  *)

TunResults ==
    { <<WriteToTunnel(InnerPacket), WriteToNetwork(PktResponse), Done>>,
      <<WriteToNetwork(PktResponse), WriteToTunnel(InnerPacket), TunnErr>>,
      <<TunnErr, WriteToTunnel(InnerPacket)>>,
      <<Done, WriteToTunnel(InnerPacket)>> }

InitTun == InitManager(2, {1}, {2}, {Some(1)}) /\ mode = "Redundant"

RecvFromTun == RecvFromOf(RunSources, RunFrames, MaxQueue)
NetRxTun == NetRxOf(TunResults)

NextTun == RecvFromTun \/ NetRxTun \/ ReturnRun

SpecTun == InitTun /\ [][NextTun]_vars

\* C40: a write to the TUN device that fails makes handle_incoming return the
\* error and ends run, while a decapsulate error is dropped and leaves the
\* loop running; a write that succeeds ends the handling of the datagram:
\* the write is the only one of the event and decapsulate is not called again
\* after it.  Once run has ended, nothing more is taken from the queue.
C40_TunWriteErrorIsFatal ==
    /\ [](op.name = "net_rx" =>
            /\ Len(tun) <= 1
            /\ tun # <<>> =>
                  /\ decap[Len(decap)].kind = "WriteToTunnel"
                  /\ \A k \in 1..(Len(decap) - 1) : decap[k].kind = "WriteToNetwork"
                  /\ tun[1].data = InnerPacket
                  /\ tun[1].ok => (op.ret /\ run = "running")
                  /\ ~tun[1].ok => (~op.ret /\ run = Err)
            /\ tun = <<>> => (op.ret /\ run = "running")
            /\ Rejected => tun = <<>>)
    /\ [][run # "running" => (net_rx' = net_rx /\ links' = links /\ run' = run)]_vars

\* the write of the decapsulated packet failed: handle_incoming returned the
\* error and run has ended with it
C40_Witness ==
    /\ op.name = "net_rx"
    /\ op.packet = PktData
    /\ Len(decap) = 1
    /\ tun = <<[data |-> InnerPacket, ok |-> FALSE]>>
    /\ ~op.ret
    /\ run = Err

\* the write succeeded after a handshake response had been sent: decapsulate
\* was called twice and not a third time
C40_WitnessWritten ==
    /\ op.name = "net_rx"
    /\ tun = <<[data |-> InnerPacket, ok |-> TRUE]>>
    /\ Len(decap) = 2
    /\ decap[1].kind = "WriteToNetwork"
    /\ sent # <<>>
    /\ run = "running"

\* decapsulate rejected the datagram: nothing written, the loop goes on
C40_WitnessRejected ==
    /\ op.name = "net_rx"
    /\ Rejected
    /\ Len(decap) = 1
    /\ tun = <<>>
    /\ run = "running"

====
